---- MODULE Spec2Model ----
(***************************************************************************)
(* A model of the URL -> sitemap -> metadata -> llms.txt tool.             *)
(*                                                                         *)
(* Strings are sequences of tokens.  A token is one character, except that *)
(* a few fixed words ("sitemap", "/robots.txt", ...) are single tokens, so *)
(* that trimming, splitting and joining are computed as the code computes  *)
(* them on inputs of manageable length.                                    *)
(***************************************************************************)
EXTENDS Integers, Sequences, FiniteSets, TLC

VARIABLES
    pc,               \* position of the control flow being modelled
    origin,           \* runUrlToLlmsFlow: site.origin
    robotsText,       \* discoverSitemaps: the response to the robots.txt fetch
    sitemapUrls,      \* discoverSitemaps: its return value (a sequence)
    smStack,          \* extractUrlsFromSitemap: the processSitemap call stack
    visitedSitemaps,  \* extractUrlsFromSitemap: the per-call visited set
    urls,             \* extractUrlsFromSitemap: the array of collected page URLs
    smResult,         \* extractUrlsFromSitemap: its return value
    fetchLog,         \* history: the sitemap URLs fetched in this call, in order
    docs,             \* history: the response each fetched sitemap URL got in this call
    smIdx,            \* runUrlToLlmsFlow: index into sitemapUrls
    allUrls,          \* runUrlToLlmsFlow: allUrlsSet, in insertion order
    pageIdx,          \* runUrlToLlmsFlow: index into allUrls
    pageResp,         \* history: the response each page fetch got
    found,            \* history: the page URLs the sitemaps of this run listed
    delayMs,          \* runUrlToLlmsFlow: the delay between page fetches
    status,           \* toolStatus.textContent
    statusError,      \* toolStatus has the class "error"
    metadataRows,     \* the global record list
    faqDoc,           \* extractFaqItemsFromHtml: the parsed document
    faqResult,        \* extractFaqItemsFromHtml: its return value
    faqTier,          \* history: the tier whose items were returned
    faqItems,         \* the global FAQ item list
    otherRun,         \* the locals of a second runUrlToLlmsFlow call that is suspended too
    issued,           \* history: the kinds of fetch this run has issued
    faqUrlState,      \* history: what this run made of the FAQ field: "none", "empty", "valid", "invalid"
    llmsTextContent,  \* the global rendered document
    csvDisabled,      \* downloadCsvBtn.disabled
    llmsDisabled,     \* downloadLlmsBtn.disabled
    csvFile,          \* the text of the last CSV download
    groupUrl,         \* getGroupNameFromUrl: its argument
    groupName,        \* getGroupNameFromUrl: its return value
    urlField,         \* siteUrlInput.value when the two fields are parsed on their own
    faqField,         \* faqUrlInput.value
    urlObj,           \* runUrlToLlmsFlow: the URL object made of the site field
    faqUrlObj,        \* fetchAndExtractFaqFromUrl: the URL object made of the FAQ field
    metaHtml,         \* extractMetaFromHtml: the page passed in
    metaUrl,          \* extractMetaFromHtml: the url passed in
    metaResult        \* extractMetaFromHtml: its return value

discVars == <<robotsText, sitemapUrls>>
smVars == <<smStack, visitedSitemaps, urls, smResult, fetchLog, docs>>
runVars == <<origin, smIdx, allUrls, pageIdx, pageResp, found, delayMs, status, statusError,
             metadataRows, faqItems, otherRun, issued, faqUrlState>>
faqVars == <<faqDoc, faqResult, faqTier>>

outVars == <<llmsTextContent, csvDisabled, llmsDisabled, csvFile>>
groupVars == <<groupUrl, groupName>>
urlVars == <<urlField, faqField, urlObj, faqUrlObj>>
metaVars == <<metaHtml, metaUrl, metaResult>>

vars == <<pc, discVars, smVars, runVars, faqVars, outVars, groupVars, urlVars, metaVars>>

\* What fetchUrlGeneric returns: null on any error, else the response body.
Failed == [ok |-> FALSE]
Ok(b) == [ok |-> TRUE, body |-> b]

(***************************************************************************)
(* Strings                                                                 *)
(***************************************************************************)

LF == "\n"
CR == "\r"

\* Characters String.prototype.trim() removes.
WhiteSpace == {" ", LF, CR}

RECURSIVE TrimStart(_)
TrimStart(s) ==
    IF s # <<>> /\ Head(s) \in WhiteSpace THEN TrimStart(Tail(s)) ELSE s

RECURSIVE TrimEnd(_)
TrimEnd(s) ==
    IF s # <<>> /\ s[Len(s)] \in WhiteSpace
    THEN TrimEnd(SubSeq(s, 1, Len(s) - 1))
    ELSE s

\* String.prototype.trim()
Trim(s) == TrimEnd(TrimStart(s))

\* The lower-case form of a token (the case-insensitive flag of a regex).
ToLower(tok) ==
    CASE tok = "Sitemap" -> "sitemap"
      [] tok = "SITEMAP" -> "sitemap"
      [] tok = "What" -> "what"
      [] tok = "IS" -> "is"
      [] tok = "FAQPage" -> "faqpage"
      [] tok = "Question" -> "question"
      [] tok = "https://schema.org/Question" -> "https://schema.org/question"
      [] tok = "Answer" -> "answer"
      [] OTHER -> tok

\* String.prototype.split(sep) for a one-token separator.
RECURSIVE SplitAcc(_, _, _, _)
SplitAcc(rest, sep, cur, acc) ==
    IF rest = <<>> THEN Append(acc, cur)
    ELSE IF Head(rest) = sep THEN SplitAcc(Tail(rest), sep, <<>>, Append(acc, cur))
    ELSE SplitAcc(Tail(rest), sep, Append(cur, Head(rest)), acc)

Split(s, sep) == SplitAcc(s, sep, <<>>, <<>>)

\* Array.prototype.join(sep) for an array of strings.
RECURSIVE Join(_, _)
Join(parts, sep) ==
    IF parts = <<>> THEN <<>>
    ELSE IF Len(parts) = 1 THEN parts[1]
    ELSE parts[1] \o <<sep>> \o Join(Tail(parts), sep)

\* robotsText.split(/\r?\n/)
RECURSIVE SplitLinesAcc(_, _, _)
SplitLinesAcc(rest, cur, acc) ==
    IF rest = <<>> THEN Append(acc, cur)
    ELSE IF Head(rest) = LF THEN SplitLinesAcc(Tail(rest), <<>>, Append(acc, cur))
    ELSE IF Head(rest) = CR /\ Len(rest) >= 2 /\ rest[2] = LF
         THEN SplitLinesAcc(Tail(Tail(rest)), <<>>, Append(acc, cur))
    ELSE SplitLinesAcc(Tail(rest), Append(cur, Head(rest)), acc)

SplitLines(text) == SplitLinesAcc(text, <<>>, <<>>)

\* Set.prototype.add on a Set kept as the sequence of its elements in insertion order.
SetAdd(seq, x) ==
    IF \E i \in 1..Len(seq) : seq[i] = x THEN seq ELSE Append(seq, x)

RECURSIVE SetAddAll(_, _)
SetAddAll(seq, xs) ==
    IF xs = <<>> THEN seq ELSE SetAddAll(SetAdd(seq, Head(xs)), Tail(xs))

\* Array.from(new Set(xs))
Dedupe(xs) == SetAddAll(<<>>, xs)

Range(s) == {s[i] : i \in 1..Len(s)}

(***************************************************************************)
(* discoverSitemaps                                                        *)
(***************************************************************************)

\* /^sitemap:/i.test(trimmed)
TestSitemapPrefix(trimmed) ==
    /\ Len(trimmed) >= 2
    /\ ToLower(trimmed[1]) = "sitemap"
    /\ trimmed[2] = ":"

\* trimmed.split(/:/i).slice(1).join(":").trim()
AfterColonSecondPartOnly(trimmed) == Trim(Split(trimmed, ":")[2])

AfterColon(trimmed) == Trim(Join(Tail(Split(trimmed, ":")), ":"))

\* The for loop over the lines of robots.txt.
RECURSIVE ScanRobotsLines(_, _)
ScanRobotsLines(lines, set) ==
    IF lines = <<>> THEN set
    ELSE LET trimmed == Trim(Head(lines))
             next == IF TestSitemapPrefix(trimmed) /\ AfterColon(trimmed) # <<>>
                     THEN SetAdd(set, AfterColon(trimmed))
                     ELSE set
         IN  ScanRobotsLines(Tail(lines), next)

\* `${origin}/sitemap.xml`
FallbackSitemap(o) == o \o <<"/sitemap.xml">>

\* The Set sitemapUrls after the robots.txt step (`if (robotsText) {...}`).
RobotsSitemaps(resp) ==
    IF resp.ok /\ resp.body # <<>>
    THEN ScanRobotsLines(SplitLines(resp.body), <<>>)
    ELSE <<>>

\* discoverSitemaps(origin), given the response to the robots.txt fetch.
DiscoverSitemapsNoFallback(o, resp) == RobotsSitemaps(resp)

DiscoverSitemaps(o, resp) ==
    IF RobotsSitemaps(resp) = <<>>
    THEN <<FallbackSitemap(o)>>
    ELSE RobotsSitemaps(resp)

\* The origins a run is started on.
Origins == { <<"https://", "x.com">>, <<"http://", "y.org">> }

MaxRobotsLines == 2

\* Lines a robots.txt is made of.
RobotsLines ==
    { <<"sitemap", ":", "s1">>,
      <<"Sitemap", ":", " ", "s1", " ">>,
      <<" ", "SITEMAP", ":", "s2">>,
      <<"sitemap", ":", "s1", ":", "s2">>,
      <<"sitemap", ":">>,
      <<"Sitemap", ":", " ">>,
      <<"sitemap", " ", ":", "s1">>,
      <<"x", "sitemap", ":", "s1">>,
      <<"x", ":", "s1">>,
      <<"sitemap", "s1", CR>>,
      <<>> }

LineSeparators == { <<LF>>, <<CR, LF>> }

RECURSIVE JoinWith(_, _)
JoinWith(lines, sep) ==
    IF lines = <<>> THEN <<>>
    ELSE IF Len(lines) = 1 THEN lines[1]
    ELSE lines[1] \o sep \o JoinWith(Tail(lines), sep)

SeqsUpTo(S, n) == UNION { [1..k -> S] : k \in 0..n }

\* The robots.txt responses: a failed fetch, or a text of up to MaxRobotsLines lines.
RobotsTexts ==
    {Failed} \cup { Ok(JoinWith(ls, sep)) : ls \in SeqsUpTo(RobotsLines, MaxRobotsLines),
                                             sep \in LineSeparators }

\* fetchUrlGeneric(robotsUrl, false) resolves and discoverSitemaps runs to its end.
RobotsResp(Responses) ==
    /\ pc = "robotsFetch"
    /\ \E r \in Responses :
        /\ robotsText' = r
        /\ sitemapUrls' = DiscoverSitemaps(origin, r)
    /\ pc' = "discovered"
    /\ UNCHANGED <<smVars, runVars, faqVars, outVars, groupVars, urlVars, metaVars>>

(***************************************************************************)
(* extractUrlsFromSitemap                                                  *)
(***************************************************************************)

MaxLocs == 2

\* The text of a <loc> element; <<>> also stands for an entry without <loc>.
SitemapLocs == { <<"s1">>, <<"s2">>, <<"s3">> }
PageLocs == { <<"p1">>, <<" ", "p1">>, <<"p2">>, <<>> }

\* A parsed XML document: one with a <sitemapindex> element and its <sitemap>
\* entries, or any other document and its <url> entries (none for a document that
\* is no sitemap, or that did not parse).
IndexDocs(n) == { [kind |-> "index", locs |-> ls] : ls \in SeqsUpTo(SitemapLocs, n) }
UrlsetDocs(n) == { [kind |-> "urlset", locs |-> ls] : ls \in SeqsUpTo(PageLocs, n) }

\* The responses of a sitemap fetch: null, or a document.
SitemapResponses(n) == {Failed} \cup { Ok(d) : d \in IndexDocs(n) \cup UrlsetDocs(n) }

\* `if (locEl && locEl.textContent)` then `.textContent.trim()`, over the entries.
RECURSIVE TrimmedLocs(_)
TrimmedLocs(locs) ==
    IF locs = <<>> THEN <<>>
    ELSE IF Head(locs) # <<>> THEN <<Trim(Head(locs))>> \o TrimmedLocs(Tail(locs))
    ELSE TrimmedLocs(Tail(locs))

\* The URLs the entries of an index can name.
RootSitemap == <<"s1">>
SitemapUrlUniverse == { Trim(l) : l \in SitemapLocs }

\* Fetches the model allows in one call; the visited guard keeps the code within
\* it: one fetch for the URL the call is made on and one per URL an entry names.
MaxFetches == Cardinality(SitemapUrlUniverse) + 1

Pop(stack) == SubSeq(stack, 1, Len(stack) - 1)
Top(stack) == stack[Len(stack)]

\* `if (visitedSitemaps.has(url)) return;`
AlreadyVisitedNever(url, visited) == FALSE

AlreadyVisited(url, visited) == url \in visited

\* `if (!xmlDoc) return;`: the call returns to its caller, which goes on.
AfterFailedFetchAbort(stack) == <<>>

AfterFailedFetch(stack) == Pop(stack)

\* The state right after extractUrlsFromSitemap(sitemapUrl) has called
\* processSitemap(sitemapUrl), which is suspended on its fetch.
ExtractUrlsStart(sitemapUrl) ==
    [ stack |-> << [url |-> sitemapUrl, state |-> "fetching", kids |-> <<>>, i |-> 1] >>,
      visited |-> {sitemapUrl},
      urls |-> <<>>,
      result |-> <<>>,
      log |-> <<sitemapUrl>>,
      docs |-> <<>> ]

\* `await extractUrlsFromSitemap(smUrl)`, up to the first fetch.
CallExtractUrls(sitemapUrl) ==
    /\ smStack' = ExtractUrlsStart(sitemapUrl).stack
    /\ visitedSitemaps' = ExtractUrlsStart(sitemapUrl).visited
    /\ urls' = ExtractUrlsStart(sitemapUrl).urls
    /\ smResult' = ExtractUrlsStart(sitemapUrl).result
    /\ fetchLog' = ExtractUrlsStart(sitemapUrl).log
    /\ docs' = ExtractUrlsStart(sitemapUrl).docs

\* fetchUrlGeneric(url, true) resolves in the processSitemap call on top of the stack.
SmFetchResp(Responses) ==
    /\ pc = "sm"
    /\ smStack # <<>>
    /\ Top(smStack).state = "fetching"
    /\ \E r \in Responses :
        /\ docs' = Append(docs, [url |-> Top(smStack).url, resp |-> r])
        /\ IF ~r.ok
           THEN /\ smStack' = AfterFailedFetch(smStack)
                /\ urls' = urls
           ELSE IF r.body.kind = "index"
           THEN /\ smStack' = [smStack EXCEPT ![Len(smStack)] =
                                  [@ EXCEPT !.state = "loop",
                                            !.kids = TrimmedLocs(r.body.locs),
                                            !.i = 1]]
                /\ urls' = urls
           ELSE /\ smStack' = Pop(smStack)
                /\ urls' = urls \o TrimmedLocs(r.body.locs)
        /\ found' = IF r.ok /\ r.body.kind = "urlset"
                    THEN found \cup Range(TrimmedLocs(r.body.locs))
                    ELSE found
    /\ UNCHANGED <<pc, visitedSitemaps, smResult, fetchLog, discVars, faqVars>>
    /\ UNCHANGED <<origin, smIdx, allUrls, pageIdx, pageResp, delayMs, status, statusError,
                   metadataRows, faqItems, otherRun, issued, faqUrlState, outVars, groupVars, urlVars, metaVars>>

\* One iteration of `for (const sm of sitemapNodes)`: processSitemap(childUrl) runs
\* up to its fetch, or returns at once; after the last entry the call returns.
SmLoop ==
    /\ pc = "sm"
    /\ smStack # <<>>
    /\ Top(smStack).state = "loop"
    /\ LET f == Top(smStack) IN
       IF f.i > Len(f.kids)
       THEN /\ smStack' = Pop(smStack)
            /\ UNCHANGED <<visitedSitemaps, fetchLog>>
       ELSE LET childUrl == f.kids[f.i]
                advanced == [smStack EXCEPT ![Len(smStack)] = [@ EXCEPT !.i = f.i + 1]]
            IN  IF AlreadyVisited(childUrl, visitedSitemaps)
                THEN /\ smStack' = advanced
                     /\ UNCHANGED <<visitedSitemaps, fetchLog>>
                ELSE /\ Len(fetchLog) < MaxFetches
                     /\ smStack' = Append(advanced,
                            [url |-> childUrl, state |-> "fetching", kids |-> <<>>, i |-> 1])
                     /\ visitedSitemaps' = visitedSitemaps \cup {childUrl}
                     /\ fetchLog' = Append(fetchLog, childUrl)
    /\ UNCHANGED <<pc, urls, smResult, docs, discVars, runVars, faqVars, outVars, groupVars, urlVars, metaVars>>

\* `return Array.from(new Set(urls));`
SmReturn ==
    /\ pc = "sm"
    /\ smStack = <<>>
    /\ smResult' = Dedupe(urls)
    /\ pc' = "smReturned"
    /\ UNCHANGED <<smStack, visitedSitemaps, urls, fetchLog, docs,
                   discVars, runVars, faqVars, outVars, groupVars, urlVars, metaVars>>

\* toolStatus.textContent: the message and the number it reports, if any.
StatusText(text, n) == [text |-> text, n |-> n]

\* The locals of a call of runUrlToLlmsFlow that has not started.
IdleRun ==
    [ pc |-> "idle", origin |-> <<>>, robotsText |-> Failed, sitemapUrls |-> <<>>,
      smStack |-> <<>>, visitedSitemaps |-> {}, urls |-> <<>>, smResult |-> <<>>,
      fetchLog |-> <<>>, docs |-> <<>>, smIdx |-> 0, allUrls |-> <<>>, pageIdx |-> 0,
      pageResp |-> <<>>, found |-> {}, delayMs |-> 0,
      faqDoc |-> <<>>, faqResult |-> <<>>, faqTier |-> "none",
      issued |-> {}, faqUrlState |-> "none" ]

\* Variables a specification of one component leaves at rest.
NoRun ==
    /\ smIdx = 0
    /\ allUrls = <<>>
    /\ pageIdx = 0
    /\ pageResp = <<>>
    /\ found = {}
    /\ delayMs = 0
    /\ status = StatusText("", 0)
    /\ statusError = FALSE
    /\ metadataRows = <<>>
    /\ faqItems = <<>>
    /\ otherRun = IdleRun
    /\ issued = {}
    /\ faqUrlState = "none"

\* Nothing rendered or downloaded, as the page loads.
NoOutput ==
    /\ llmsTextContent = <<>>
    /\ csvDisabled = TRUE
    /\ llmsDisabled = TRUE
    /\ csvFile = <<>>

NoGroupCall ==
    /\ groupUrl = <<>>
    /\ groupName = <<>>

NoUrlCall ==
    /\ urlField = <<>>
    /\ faqField = <<>>
    /\ urlObj = Failed
    /\ faqUrlObj = Failed

NoMetaCall ==
    /\ metaHtml = <<>>
    /\ metaUrl = <<>>
    /\ metaResult = <<>>

NoDiscover ==
    /\ robotsText = Failed
    /\ sitemapUrls = <<>>

NoFaq ==
    /\ faqDoc = <<>>
    /\ faqResult = <<>>
    /\ faqTier = "none"

\* One call extractUrlsFromSitemap(RootSitemap), whatever the fetches answer.
InitSitemap ==
    /\ pc = "sm"
    /\ origin = <<"https://", "x.com">>
    /\ smStack = ExtractUrlsStart(RootSitemap).stack
    /\ visitedSitemaps = ExtractUrlsStart(RootSitemap).visited
    /\ urls = ExtractUrlsStart(RootSitemap).urls
    /\ smResult = ExtractUrlsStart(RootSitemap).result
    /\ fetchLog = ExtractUrlsStart(RootSitemap).log
    /\ docs = ExtractUrlsStart(RootSitemap).docs
    /\ NoDiscover /\ NoRun /\ NoFaq /\ NoOutput /\ NoGroupCall /\ NoUrlCall /\ NoMetaCall

NextSitemap ==
    \/ SmFetchResp(SitemapResponses(MaxLocs))
    \/ SmLoop
    \/ SmReturn

SpecSitemap == InitSitemap /\ [][NextSitemap]_vars

\* The same call over every index document but one URL sitemap only: page URLs
\* play no part in whether the call returns.
TerminationResponses ==
    {Failed} \cup { Ok(d) : d \in IndexDocs(MaxLocs) }
             \cup { Ok([kind |-> "urlset", locs |-> << <<"p1">> >>]) }

NextSitemapT ==
    \/ SmFetchResp(TerminationResponses)
    \/ SmLoop
    \/ SmReturn

\* Every fetch settles (fetchUrlGeneric resolves with a document or with null) and
\* the event loop then resumes the suspended call.
SpecSitemapFair == InitSitemap /\ [][NextSitemapT]_vars /\ WF_vars(NextSitemapT)

(***************************************************************************)
(* Properties of extractUrlsFromSitemap                                    *)
(***************************************************************************)

\* What the fetches of this call answered.
Fetched == { d.url : d \in Range(docs) }
RespOf(u) == (CHOOSE d \in Range(docs) : d.url = u).resp
IsIndex(u) == u \in Fetched /\ RespOf(u).ok /\ RespOf(u).body.kind = "index"
IsUrlset(u) == u \in Fetched /\ RespOf(u).ok /\ RespOf(u).body.kind = "urlset"
IsFailed(u) == u \in Fetched /\ ~RespOf(u).ok
KidsOf(u) == IF IsIndex(u) THEN TrimmedLocs(RespOf(u).body.locs) ELSE <<>>
PagesOf(u) == IF IsUrlset(u) THEN TrimmedLocs(RespOf(u).body.locs) ELSE <<>>

\* The sitemap URLs reachable from the root through the indexes that were answered.
RECURSIVE ReachFrom(_)
ReachFrom(S) ==
    LET N == S \cup UNION { Range(KidsOf(u)) : u \in S }
    IN  IF N = S THEN S ELSE ReachFrom(N)

Reachable == ReachFrom({RootSitemap})

NoDuplicates(seq) == \A i, j \in 1..Len(seq) : i # j => seq[i] # seq[j]

\* C1: within one call of extractUrlsFromSitemap no sitemap URL is fetched twice,
\* and the URLs fetched are exactly those marked visited.
C1_FetchedAtMostOnce ==
    pc \in {"sm", "smReturned"} =>
        /\ NoDuplicates(fetchLog)
        /\ Range(fetchLog) = visitedSitemaps

\* The call has returned after an index that lists one child twice, that child
\* being an index that lists itself.
C1_Witness ==
    /\ pc = "smReturned"
    /\ \E u \in Fetched, c \in Fetched :
        /\ Len(KidsOf(u)) = 2
        /\ KidsOf(u)[1] = c /\ KidsOf(u)[2] = c
        /\ c \in Range(KidsOf(c))

\* C2: every call of extractUrlsFromSitemap returns, whatever the graph and
\* whichever fetches fail.
C2_Terminates == <>(pc = "smReturned")

\* The call has returned from a graph with a cycle through two sitemaps and a
\* failed fetch.
C2_Witness ==
    /\ pc = "smReturned"
    /\ \E u \in Fetched, c \in Fetched :
        /\ u # c
        /\ c \in Range(KidsOf(u))
        /\ u \in Range(KidsOf(c))
    /\ \E f \in Fetched : IsFailed(f)

\* C4: when the call returns, every sitemap reachable through the answered
\* indexes has been fetched, whether or not an earlier sibling failed, and the
\* result is exactly the page URLs of the reachable URL sitemaps, each once.
C4_FailureSkipsOnlyTheNode ==
    pc = "smReturned" =>
        /\ Reachable \subseteq Fetched
        /\ Range(smResult) = UNION { Range(PagesOf(u)) : u \in Reachable }
        /\ NoDuplicates(smResult)

\* The call has returned; an index lists a sitemap whose fetch failed and, after
\* it, a URL sitemap whose page is in the result.
C4_Witness ==
    /\ pc = "smReturned"
    /\ \E u \in Fetched :
        /\ Len(KidsOf(u)) = 2
        /\ IsFailed(KidsOf(u)[1])
        /\ IsUrlset(KidsOf(u)[2])
        /\ PagesOf(KidsOf(u)[2]) # <<>>
        /\ Range(PagesOf(KidsOf(u)[2])) \subseteq Range(smResult)

(***************************************************************************)
(* discoverSitemaps as a function of the robots.txt response               *)
(***************************************************************************)

NoSitemapCall ==
    /\ smStack = <<>>
    /\ visitedSitemaps = {}
    /\ urls = <<>>
    /\ smResult = <<>>
    /\ fetchLog = <<>>
    /\ docs = <<>>

\* One call discoverSitemaps(origin), suspended on its robots.txt fetch.
InitDiscover ==
    /\ pc = "robotsFetch"
    /\ origin \in Origins
    /\ NoDiscover /\ NoSitemapCall /\ NoRun /\ NoFaq /\ NoOutput /\ NoGroupCall /\ NoUrlCall /\ NoMetaCall

NextDiscover == RobotsResp(RobotsTexts)

SpecDiscover == InitDiscover /\ [][NextDiscover]_vars

\* A line is a Sitemap directive: after leading white space, the word "sitemap" in
\* any case, then a colon.
IsDirective(l) ==
    \E k \in 1..(Len(l) - 1) :
        /\ \A j \in 1..(k - 1) : l[j] \in WhiteSpace
        /\ l[k] \in {"sitemap", "Sitemap", "SITEMAP"}
        /\ l[k + 1] = ":"

\* Everything after the first colon of a line, trimmed.
FirstColon(l) == CHOOSE k \in 1..Len(l) : l[k] = ":" /\ \A j \in 1..(k - 1) : l[j] # ":"
ValueOf(l) == Trim(SubSeq(l, FirstColon(l) + 1, Len(l)))

DirectiveLines ==
    IF robotsText.ok
    THEN { l \in Range(SplitLines(robotsText.body)) : IsDirective(l) }
    ELSE {}

DirectiveValues == { ValueOf(l) : l \in DirectiveLines }

\* C5 as claimed: with at least one directive line, the result is exactly the set
\* of the trimmed values of the directive lines, without the fallback.
C5_AllValuesReturned ==
    (pc = "discovered" /\ DirectiveLines # {}) =>
        /\ Range(sitemapUrls) = DirectiveValues
        /\ NoDuplicates(sitemapUrls)
        /\ FallbackSitemap(origin) \notin Range(sitemapUrls)

\* C5, amended: with at least one directive line, the result is exactly the set of
\* the non-empty trimmed values of the directive lines, each once and without the
\* fallback; a directive whose value is empty is ignored, and when every value is
\* empty the result is the fallback alone.
C5_NonEmptyValuesReturned ==
    (pc = "discovered" /\ DirectiveLines # {}) =>
        /\ NoDuplicates(sitemapUrls)
        /\ IF DirectiveValues \ {<<>>} # {}
           THEN Range(sitemapUrls) = DirectiveValues \ {<<>>}
           ELSE sitemapUrls = <<FallbackSitemap(origin)>>

\* discoverSitemaps has returned two values, one of them with a second colon, from
\* a robots.txt of two directive lines.
C5_Witness ==
    /\ pc = "discovered"
    /\ Cardinality(DirectiveLines) = 2
    /\ Len(sitemapUrls) = 2
    /\ \E v \in Range(sitemapUrls) : ":" \in Range(v)

\* C6: when the robots.txt fetch failed, or the text is empty or has no Sitemap
\* directive, the result is the one-element sequence of the fallback URL.
C6_FallbackWhenNoDirective ==
    (pc = "discovered" /\ DirectiveLines = {}) =>
        sitemapUrls = <<FallbackSitemap(origin)>>

\* discoverSitemaps has returned the fallback for a robots.txt that has lines but
\* no directive among them.
C6_Witness ==
    /\ pc = "discovered"
    /\ robotsText.ok
    /\ Len(SplitLines(robotsText.body)) = 2
    /\ \E l \in Range(SplitLines(robotsText.body)) : l # <<>>
    /\ DirectiveLines = {}
    /\ sitemapUrls = <<FallbackSitemap(origin)>>

(***************************************************************************)
(* extractFaqItemsFromHtml: the microdata tier                             *)
(*                                                                         *)
(* A document is [roots, scripts, body]: the elements with the FAQPage     *)
(* itemtype, the ld+json script elements, and the sequence of sibling      *)
(* nodes the headings stand in.  A root is [main, ofPage]: what its two    *)
(* entity selectors match.  An entity is [name, text]: the textContent of  *)
(* its name and text elements, <<>> when the element is absent.            *)
(***************************************************************************)

\* The `||` between the two querySelectorAll calls: a NodeList is an object, and
\* an object is truthy whether or not it has members.
NodeListTruthy(nodes) == TRUE

\* root.querySelectorAll(mainEntity) || root.querySelectorAll(mainEntityOfPage)
RootEntities(root) ==
    IF NodeListTruthy(root.main) THEN root.main ELSE root.ofPage

\* The body of entities.forEach.
RECURSIVE EntityPairs(_)
EntityPairs(entities) ==
    IF entities = <<>> THEN <<>>
    ELSE LET question == Trim(Head(entities).name)
             answer == Trim(Head(entities).text)
         IN  (IF question # <<>> /\ answer # <<>>
              THEN << [question |-> question, answer |-> answer] >>
              ELSE <<>>) \o EntityPairs(Tail(entities))

\* The body of faqRoots.forEach.
RECURSIVE RootsPairs(_)
RootsPairs(roots) ==
    IF roots = <<>> THEN <<>>
    ELSE EntityPairs(RootEntities(Head(roots))) \o RootsPairs(Tail(roots))

ExtractFaqSchemaMicrodata(doc) == RootsPairs(doc.roots)

(***************************************************************************)
(* extractFaqItemsFromHtml: the JSON-LD tier                               *)
(*                                                                         *)
(* A JSON value is [k, v]: k its kind; v the tokens of a string, the items *)
(* of an array, the [key, val] members of an object in their order.        *)
(***************************************************************************)

JStr(str) == [k |-> "str", v |-> str]
JArr(items) == [k |-> "arr", v |-> items]
JObj(members) == [k |-> "obj", v |-> members]
JNull == [k |-> "null", v |-> <<>>]
Undefined == [k |-> "undef", v |-> <<>>]
Member(key, val) == [key |-> key, val |-> val]

\* node[key]
Get(node, key) ==
    IF node.k = "obj" /\ \E i \in 1..Len(node.v) : node.v[i].key = key
    THEN node.v[CHOOSE i \in 1..Len(node.v) : node.v[i].key = key].val
    ELSE Undefined

\* ToBoolean
Truthy(j) ==
    CASE j.k \in {"undef", "null"} -> FALSE
      [] j.k = "str" -> j.v # <<>>
      [] OTHER -> TRUE

\* a || b
Or(a, b) == IF Truthy(a) THEN a ELSE b

\* typeof j === "object", for a j that is not null
IsObject(j) == j.k \in {"obj", "arr"}

\* String(j) and j.toString()
RECURSIVE ToStr(_)
RECURSIVE ToStrItems(_)
ToStr(j) ==
    CASE j.k = "str" -> j.v
      [] j.k = "obj" -> <<"[object Object]">>
      [] j.k = "arr" -> ToStrItems(j.v)
      [] j.k = "null" -> <<"null">>
      [] OTHER -> <<"undefined">>
ToStrItems(items) ==
    IF items = <<>> THEN <<>>
    ELSE (IF Head(items).k \in {"null", "undef"} THEN <<>> ELSE ToStr(Head(items)))
         \o (IF Len(items) > 1 THEN <<",">> \o ToStrItems(Tail(items)) ELSE <<>>)

\* The type strings the inputs use, one token each: lower-cased text includes sub.
TokenIncludes(tok, sub) ==
    CASE sub = "faqpage" -> ToLower(tok) \in {"faqpage"}
      [] sub = "question" -> ToLower(tok) \in {"question", "https://schema.org/question"}
      [] OTHER -> FALSE

\* String(v).toLowerCase().includes(typeSubstring.toLowerCase())
StrIncludes(str, sub) == \E i \in 1..Len(str) : TokenIncludes(str[i], sub)

\* nodeHasType(node, typeSubstring), for a node that is not null
NodeHasType(node, sub) ==
    LET t == Or(Get(node, "@type"), Get(node, "type"))
    IN  IF ~Truthy(t) THEN FALSE
        ELSE IF t.k = "arr"
             THEN \E i \in 1..Len(t.v) : StrIncludes(ToStr(t.v[i]), sub)
             ELSE StrIncludes(ToStr(t), sub)

\* answers.forEach in handleQuestion
RECURSIVE AnswerPairs(_, _)
AnswerPairs(qText, answers) ==
    IF answers = <<>> THEN <<>>
    ELSE LET ansObj == Head(answers)
             aText == ToStr(Or(Or(Get(ansObj, "text"), Get(ansObj, "description")),
                               JStr(<<>>)))
         IN  (IF Truthy(ansObj) /\ IsObject(ansObj) /\ qText # <<>> /\ aText # <<>>
              THEN << [question |-> Trim(qText), answer |-> Trim(aText)] >>
              ELSE <<>>) \o AnswerPairs(qText, Tail(answers))

\* handleQuestion(qObj): the pairs it pushes
HandleQuestion(qObj) ==
    IF ~Truthy(qObj) \/ ~IsObject(qObj) THEN <<>>
    ELSE LET qText == ToStr(Or(Or(Get(qObj, "name"), Get(qObj, "headline")), JStr(<<>>)))
             aPart == Or(Or(Get(qObj, "acceptedAnswer"), Get(qObj, "acceptedAnswers")),
                         Get(qObj, "suggestedAnswer"))
             answers == IF aPart.k = "arr" THEN aPart.v
                        ELSE IF Truthy(aPart) THEN <<aPart>>
                        ELSE <<>>
         IN  AnswerPairs(qText, answers)

\* node.mainEntity || node.mainEntityOfPage || node.mainEntityOfPageList, as a list
EntityList(node) ==
    LET entities == Or(Or(Get(node, "mainEntity"), Get(node, "mainEntityOfPage")),
                       Get(node, "mainEntityOfPageList"))
    IN  IF ~Truthy(entities) THEN <<>>
        ELSE IF entities.k = "arr" THEN entities.v
        ELSE <<entities>>

\* list.forEach in walk
RECURSIVE EntityListPairs(_)
EntityListPairs(list) ==
    IF list = <<>> THEN <<>>
    ELSE (IF NodeHasType(Head(list), "question") THEN HandleQuestion(Head(list)) ELSE <<>>)
         \o EntityListPairs(Tail(list))

\* walk(node): the pairs it pushes, when no call in it throws
RECURSIVE Walk(_)
RECURSIVE WalkItems(_)
RECURSIVE WalkMembers(_)
Walk(node) ==
    IF ~Truthy(node) THEN <<>>
    ELSE IF node.k = "arr" THEN WalkItems(node.v)
    ELSE IF node.k = "obj"
    THEN (IF NodeHasType(node, "faqpage") THEN EntityListPairs(EntityList(node))
          ELSE IF NodeHasType(node, "question") THEN HandleQuestion(node)
          ELSE <<>>) \o WalkMembers(node.v)
    ELSE <<>>
WalkItems(items) ==
    IF items = <<>> THEN <<>> ELSE Walk(Head(items)) \o WalkItems(Tail(items))
WalkMembers(members) ==
    IF members = <<>> THEN <<>> ELSE Walk(Head(members).val) \o WalkMembers(Tail(members))

\* walk(node) throws: nodeHasType reads a property of null, for a null member of
\* the entity list of an FAQPage node.
RECURSIVE WalkThrows(_)
WalkThrows(node) ==
    IF ~Truthy(node) THEN FALSE
    ELSE IF node.k = "arr" THEN \E i \in 1..Len(node.v) : WalkThrows(node.v[i])
    ELSE IF node.k = "obj"
    THEN \/ /\ NodeHasType(node, "faqpage")
            /\ \E i \in 1..Len(EntityList(node)) : EntityList(node)[i].k = "null"
         \/ \E i \in 1..Len(node.v) : WalkThrows(node.v[i].val)
    ELSE FALSE

\* scripts.forEach: a script is [valid, data]; one that is blank or does not
\* parse is skipped, and so is one whose walk throws.
RECURSIVE ScriptsPairs(_)
ScriptsPairs(scripts) ==
    IF scripts = <<>> THEN <<>>
    ELSE (IF Head(scripts).valid /\ ~WalkThrows(Head(scripts).data)
          THEN Walk(Head(scripts).data)
          ELSE <<>>) \o ScriptsPairs(Tail(scripts))

\* `${item.question}|||${item.answer}`
DedupeKey(item) == item.question \o <<"|||">> \o item.answer

\* faqs.forEach over the `seen` Set
RECURSIVE UniqueByKey(_, _, _)
UniqueByKey(faqs, seen, unique) ==
    IF faqs = <<>> THEN unique
    ELSE IF DedupeKey(Head(faqs)) \in seen
         THEN UniqueByKey(Tail(faqs), seen, unique)
         ELSE UniqueByKey(Tail(faqs), seen \cup {DedupeKey(Head(faqs))},
                          Append(unique, Head(faqs)))

ExtractFaqSchemaLdJson(doc) == UniqueByKey(ScriptsPairs(doc.scripts), {}, <<>>)

(***************************************************************************)
(* extractFaqItemsFromHtml: the heading tier                               *)
(*                                                                         *)
(* The body is a sequence of sibling nodes [tag, text]: tag an element's   *)
(* lower-case tag name, "#text" for a text node, "#comment" for any other  *)
(* node; text its textContent.                                             *)
(***************************************************************************)

QuestionStarts ==
    {"what", "how", "why", "when", "where", "who", "does", "do", "can", "is", "are",
     "should", "will", "could"}

RECURSIVE LowerCase(_)
LowerCase(str) ==
    IF str = <<>> THEN <<>> ELSE <<ToLower(Head(str))>> \o LowerCase(Tail(str))

\* looksLikeQuestion(text)
LooksLikeQuestion(text) ==
    LET t == LowerCase(Trim(text))
    IN  /\ t # <<>>
        /\ \/ "?" \in Range(t)
           \/ /\ Len(t) >= 2
              /\ t[1] \in QuestionStarts
              /\ t[2] = " "

HeadingTags == {"h2", "h3", "h4"}
\* The stop list without the level-1 heading.
StopTagsWithoutH1 == {"h2", "h3", "h4"}

StopTags == {"h1", "h2", "h3", "h4"}
AnswerTags == {"p", "div", "li", "section", "article"}

\* The while loop over h.nextSibling: the answer parts from position i on.
RECURSIVE AnswerParts(_, _)
AnswerParts(body, i) ==
    IF i > Len(body) THEN <<>>
    ELSE IF body[i].tag \in StopTags THEN <<>>
    ELSE (IF body[i].tag \in AnswerTags \cup {"#text"} /\ Trim(body[i].text) # <<>>
          THEN <<Trim(body[i].text)>>
          ELSE <<>>) \o AnswerParts(body, i + 1)

\* headings.forEach, from position i on.
RECURSIVE HeadingPairs(_, _)
HeadingPairs(body, i) ==
    IF i > Len(body) THEN <<>>
    ELSE LET qText == Trim(body[i].text)
             answer == Trim(JoinWith(AnswerParts(body, i + 1), <<LF, LF>>))
         IN  (IF body[i].tag \in HeadingTags /\ LooksLikeQuestion(qText) /\ answer # <<>>
              THEN << [question |-> qText, answer |-> answer] >>
              ELSE <<>>) \o HeadingPairs(body, i + 1)

ExtractFaqHeadings(doc) == HeadingPairs(doc.body, 1)

(***************************************************************************)
(* extractFaqItemsFromHtml                                                 *)
(***************************************************************************)

\* `if (items.length)`: the tier's items are returned.
TierReturnsAlways(items) == TRUE

TierReturns(items) == items # <<>>

\* 1) schema.org microdata
FaqMicrodataTier ==
    /\ pc = "faqParsed"
    /\ LET items == ExtractFaqSchemaMicrodata(faqDoc) IN
       IF TierReturns(items)
       THEN /\ faqResult' = items
            /\ faqTier' = "microdata"
            /\ pc' = "faqReturned"
       ELSE /\ pc' = "faqLdJson"
            /\ UNCHANGED <<faqResult, faqTier>>
    /\ UNCHANGED <<faqDoc, discVars, smVars, runVars, outVars, groupVars, urlVars, metaVars>>

\* 2) JSON-LD schema
FaqLdJsonTier ==
    /\ pc = "faqLdJson"
    /\ LET items == ExtractFaqSchemaLdJson(faqDoc) IN
       IF TierReturns(items)
       THEN /\ faqResult' = items
            /\ faqTier' = "ldjson"
            /\ pc' = "faqReturned"
       ELSE /\ pc' = "faqHeadings"
            /\ UNCHANGED <<faqResult, faqTier>>
    /\ UNCHANGED <<faqDoc, discVars, smVars, runVars, outVars, groupVars, urlVars, metaVars>>

\* 3) fallback: heading-based
FaqHeadingsTier ==
    /\ pc = "faqHeadings"
    /\ faqResult' = ExtractFaqHeadings(faqDoc)
    /\ faqTier' = "headings"
    /\ pc' = "faqReturned"
    /\ UNCHANGED <<faqDoc, discVars, smVars, runVars, outVars, groupVars, urlVars, metaVars>>

(***************************************************************************)
(* Documents                                                               *)
(***************************************************************************)

MaxEntities == 1
MaxSiblings == 3

Doc(roots, scripts, body) == [roots |-> roots, scripts |-> scripts, body |-> body]

MicroEntities ==
    { [name |-> <<"mq1">>, text |-> <<"ma1">>],
      [name |-> <<" ", "mq2">>, text |-> <<"ma2", " ">>],
      [name |-> <<" ">>, text |-> <<"ma1">>],
      [name |-> <<"mq1">>, text |-> <<>>] }

MicroRoots ==
    { [main |-> m, ofPage |-> o] : m \in SeqsUpTo(MicroEntities, MaxEntities),
                                   o \in SeqsUpTo(MicroEntities, MaxEntities) }

MicroRootLists == SeqsUpTo(MicroRoots, 1)

LdAnswer(a) == JObj(<< Member("@type", JStr(<<"Answer">>)), Member("text", JStr(a)) >>)
LdAnswerDescribed(a) == JObj(<< Member("description", JStr(a)) >>)

LdAnswerParts ==
    { LdAnswer(<<"la1">>), LdAnswer(<<"|||", "la1">>), LdAnswer(<<" ">>),
      LdAnswerDescribed(<<"la2", " ">>), JStr(<<"la1">>),
      JArr(<< LdAnswer(<<"la1">>), LdAnswer(<<"la2">>) >>) }

LdNames == { <<"lq1">>, <<"lq1", "|||">>, <<" ">>, <<" ", "lq2">> }

LdQuestion(type, nameKey, name, answerKey, aPart) ==
    JObj(<< Member("@type", type), Member(nameKey, JStr(name)), Member(answerKey, aPart) >>)

LdQuestions ==
    { LdQuestion(JStr(<<"Question">>), "name", n, "acceptedAnswer", a) :
          n \in LdNames, a \in LdAnswerParts }
    \cup
    { LdQuestion(JStr(<<"https://schema.org/Question">>), "headline", <<"lq3">>,
                 "suggestedAnswer", LdAnswer(<<"la3">>)),
      LdQuestion(JArr(<< JStr(<<"Thing">>), JStr(<<"Question">>) >>), "name", <<"lq3">>,
                 "acceptedAnswers", LdAnswer(<<"la3">>)),
      LdQuestion(JStr(<<"Thing">>), "name", <<"lq3">>, "acceptedAnswer",
                 LdAnswer(<<"la3">>)) }

LdFaqPage(key, entities) ==
    JObj(<< Member("@type", JStr(<<"FAQPage">>)), Member(key, entities) >>)

LdQ1 == LdQuestion(JStr(<<"Question">>), "name", <<"lq1">>, "acceptedAnswer",
                   LdAnswer(<<"la1">>))
LdQ2 == LdQuestion(JStr(<<"Question">>), "name", <<"lq2">>, "acceptedAnswer",
                   LdAnswer(<<"la2">>))

LdData ==
    LdQuestions
    \cup { LdFaqPage("mainEntity", JArr(qs)) : qs \in SeqsUpTo(LdQuestions, 2) }
    \cup { LdFaqPage("mainEntity", q) : q \in LdQuestions }
    \cup { LdFaqPage("mainEntityOfPage", JArr(<<LdQ1>>)),
           LdFaqPage("mainEntity", JArr(<<JNull, LdQ1>>)),
           JArr(<< LdFaqPage("mainEntity", JArr(<<LdQ1>>)),
                   LdFaqPage("mainEntity", JArr(<<LdQ2, LdQ1>>)) >>),
           JObj(<< Member("@graph", JArr(<< LdFaqPage("mainEntity", JArr(<<LdQ1>>)),
                                           JObj(<< Member("about", LdQ2) >>) >>)) >>),
           JNull,
           JStr(<<"lq1">>) }

Script(data) == [valid |-> TRUE, data |-> data]
InvalidScript == [valid |-> FALSE, data |-> JNull]

LdScriptLists ==
    { <<Script(d)>> : d \in LdData }
    \cup { <<InvalidScript>>,
           <<InvalidScript, Script(LdQ1)>>,
           <<Script(LdQ1), Script(LdFaqPage("mainEntity", JArr(<<LdQ1, LdQ2>>)))>>,
           <<Script(LdFaqPage("mainEntity", JArr(<<JNull, LdQ1>>))), Script(LdQ2)>> }

Node(tag, text) == [tag |-> tag, text |-> text]

BodyNodes ==
    { Node("h2", <<"What", " ", "hq1">>),
      Node("h3", <<"hq2", "?">>),
      Node("h4", <<" ", "IS", " ", "hq3", " ">>),
      Node("h2", <<"hq4">>),
      Node("h1", <<"What", " ", "hq5">>),
      Node("p", <<"ha1">>),
      Node("p", <<" ">>),
      Node("#text", <<" ", "ha2">>),
      Node("span", <<"ha3">>),
      Node("#comment", <<"ha4">>) }

Bodies == SeqsUpTo(BodyNodes, MaxSiblings)

\* A few of each part, with and without items, to combine.
SomeRootLists ==
    { <<>>,
      << [main |-> << [name |-> <<"mq1">>, text |-> <<"ma1">>] >>, ofPage |-> <<>>] >>,
      << [main |-> <<>>, ofPage |-> << [name |-> <<"mq1">>, text |-> <<"ma1">>] >>] >> }
SomeScriptLists ==
    { <<>>, <<Script(LdQ1)>>, <<InvalidScript>> }
SomeBodies ==
    { <<>>,
      << Node("h2", <<"What", " ", "hq1">>), Node("p", <<"ha1">>) >>,
      << Node("h2", <<"hq4">>), Node("p", <<"ha1">>) >> }

\* Longer bodies: siblings that follow the heading which ends an answer.
StopBodies ==
    { << Node("h2", <<"What", " ", "hq1">>), Node("p", <<"ha1">>),
         Node("h1", <<"What", " ", "hq5">>), Node("#text", <<" ", "ha2">>) >>,
      << Node("h4", <<" ", "IS", " ", "hq3", " ">>), Node("#text", <<" ", "ha2">>),
         Node("span", <<"ha3">>), Node("p", <<"ha1">>), Node("h3", <<"hq2", "?">>),
         Node("p", <<" ">>), Node("h2", <<"hq4">>), Node("p", <<"ha1">>) >> }

FaqDocs ==
    { Doc(r, s, b) : r \in SomeRootLists, s \in SomeScriptLists, b \in SomeBodies }
    \cup { Doc(<<>>, <<>>, b) : b \in StopBodies }
    \cup { Doc(r, <<>>, b) : r \in MicroRootLists, b \in SomeBodies }
    \cup { Doc(<<>>, s, b) : s \in LdScriptLists, b \in SomeBodies }
    \cup { Doc(<<>>, <<>>, b) : b \in Bodies }

\* One call extractFaqItemsFromHtml(html), the document parsed.
InitFaq ==
    /\ pc = "faqParsed"
    /\ origin = <<"https://", "x.com">>
    /\ faqDoc \in FaqDocs
    /\ faqResult = <<>>
    /\ faqTier = "none"
    /\ NoDiscover /\ NoSitemapCall /\ NoRun /\ NoOutput /\ NoGroupCall /\ NoUrlCall /\ NoMetaCall

NextFaq ==
    \/ FaqMicrodataTier
    \/ FaqLdJsonTier
    \/ FaqHeadingsTier

SpecFaq == InitFaq /\ [][NextFaq]_vars

(***************************************************************************)
(* Properties of extractFaqItemsFromHtml                                   *)
(***************************************************************************)

MicrodataItems == ExtractFaqSchemaMicrodata(faqDoc)
LdJsonItems == ExtractFaqSchemaLdJson(faqDoc)
HeadingItems == ExtractFaqHeadings(faqDoc)

\* C7: the result is the output of exactly one tier: the microdata items when
\* there are any, else the JSON-LD items when there are any, else the heading
\* items; no item of a later tier is returned beside an earlier tier's.
C7_FirstTierWins ==
    pc = "faqReturned" =>
        /\ MicrodataItems # <<>> => faqResult = MicrodataItems /\ faqTier = "microdata"
        /\ (MicrodataItems = <<>> /\ LdJsonItems # <<>>) =>
               faqResult = LdJsonItems /\ faqTier = "ldjson"
        /\ (MicrodataItems = <<>> /\ LdJsonItems = <<>>) =>
               faqResult = HeadingItems /\ faqTier = "headings"

\* The call has returned the microdata items of a document whose three tiers all
\* yield items, none of them shared with another tier.
C7_Witness ==
    /\ pc = "faqReturned"
    /\ MicrodataItems # <<>> /\ LdJsonItems # <<>> /\ HeadingItems # <<>>
    /\ faqResult = MicrodataItems
    /\ Range(faqResult) \cap (Range(LdJsonItems) \cup Range(HeadingItems)) = {}

\* C8 as claimed: every returned item has a question and an answer that are
\* non-empty after trimming.
C8_ItemsNonEmpty ==
    pc = "faqReturned" =>
        \A i \in 1..Len(faqResult) :
            /\ Trim(faqResult[i].question) # <<>>
            /\ Trim(faqResult[i].answer) # <<>>

\* C9 as claimed: the JSON-LD tier returns every distinct (question, answer) pair
\* its walk found, each exactly once.
C9_DistinctPairsKept ==
    (pc = "faqReturned" /\ faqTier = "ldjson") =>
        /\ Range(faqResult) = Range(ScriptsPairs(faqDoc.scripts))
        /\ NoDuplicates(faqResult)

\* C10 as claimed: a root whose primary selector matches nothing yields the pairs
\* of the entities its secondary selector matches.
C10_SecondaryConsulted ==
    pc = "faqReturned" =>
        \A i \in 1..Len(faqDoc.roots) :
            faqDoc.roots[i].main = <<>> =>
                Range(EntityPairs(faqDoc.roots[i].ofPage)) \subseteq Range(faqResult)

(***************************************************************************)
(* runUrlToLlmsFlow                                                        *)
(*                                                                         *)
(* A call runs from one await to the next without interruption; between    *)
(* two awaits the event loop may run a click handler or resume another     *)
(* suspended call.  Where a component above stops at a position of its own *)
(* ("discovered", "smReturned", "faqReturned") the caller's continuation   *)
(* is the next action; what precedes that position touches locals only, so *)
(* the split leaves the results of every interleaving as they are.         *)
(***************************************************************************)

Schemes == {"https://", "http://"}
Hosts == {"x.com", "y.org"}

\* `new URL(s)` on these strings: a scheme, a host and no white space.
UrlParses(s) ==
    /\ Len(s) >= 2
    /\ s[1] \in Schemes
    /\ s[2] \in Hosts
    /\ \A i \in 1..Len(s) : s[i] \notin WhiteSpace

\* site.origin
OriginOf(s) == <<s[1], s[2]>>

\* url.href: the path of a URL without one is "/".
HrefOf(s) == IF Len(s) = 2 THEN s \o <<"/">> ELSE s

\* `new URL(rawUrl)`, else `new URL("https://" + rawUrl)`.
ParseSiteUrl(rawUrl) ==
    IF UrlParses(rawUrl) THEN [ok |-> TRUE, url |-> rawUrl]
    ELSE IF UrlParses(<<"https://">> \o rawUrl)
    THEN [ok |-> TRUE, url |-> <<"https://">> \o rawUrl]
    ELSE [ok |-> FALSE, url |-> <<>>]

\* `new URL(rawFaqUrl)`, else `new URL(rawFaqUrl, origin)`: a string that starts
\* with a scheme is absolute or invalid, any other is a path below the base.
ParseFaqUrl(rawFaqUrl, base) ==
    IF UrlParses(rawFaqUrl) THEN [ok |-> TRUE, url |-> HrefOf(rawFaqUrl)]
    ELSE IF rawFaqUrl[1] \in Schemes THEN [ok |-> FALSE, url |-> <<>>]
    ELSE IF rawFaqUrl[1] = "/" THEN [ok |-> TRUE, url |-> base \o rawFaqUrl]
    ELSE [ok |-> TRUE, url |-> base \o <<"/">> \o rawFaqUrl]

\* parseFloat on these strings: an optional sign and digits, else NaN.
Digits == {"0", "1", "2"}
DigitValue(d) == IF d = "0" THEN 0 ELSE IF d = "1" THEN 1 ELSE 2
NaN == [nan |-> TRUE, val |-> 0]
Num(v) == [nan |-> FALSE, val |-> v]

ParseFloat(str) ==
    LET t == TrimStart(str) IN
    IF t # <<>> /\ t[1] \in Digits THEN Num(DigitValue(t[1]))
    ELSE IF Len(t) >= 2 /\ t[1] = "-" /\ t[2] \in Digits THEN Num(0 - DigitValue(t[2]))
    ELSE NaN

\* The delay between two page fetches, from the delay field.
DelayOf(delayVal) ==
    IF delayVal # <<>>
    THEN LET parsed == ParseFloat(delayVal) IN
         IF ~parsed.nan /\ parsed.val > 0 THEN parsed.val * 1000 ELSE 0
    ELSE 0

\* A page: the text of <title> and the content of the three meta elements, each
\* <<>> where the element or the attribute is missing.
Html(title, ogTitle, description, ogDescription) ==
    [title |-> title, ogTitle |-> ogTitle,
     description |-> description, ogDescription |-> ogDescription]

Row(url, title, description) ==
    [url |-> url, meta_title |-> title, meta_description |-> description]

\* extractMetaFromHtml with the emptiness of the title tested before it is trimmed.
ExtractMetaUntrimmedTest(html, url) ==
    Row(url,
        IF html.title # <<>> THEN Trim(html.title) ELSE Trim(html.ogTitle),
        IF html.description # <<>> THEN Trim(html.description) ELSE Trim(html.ogDescription))

ExtractMetaFromHtml(html, url) ==
    LET title == IF html.title # <<>> THEN Trim(html.title) ELSE <<>>
        description == IF html.description # <<>> THEN Trim(html.description) ELSE <<>>
    IN  Row(url,
            IF title = <<>> /\ html.ogTitle # <<>> THEN Trim(html.ogTitle) ELSE title,
            IF description = <<>> /\ html.ogDescription # <<>>
            THEN Trim(html.ogDescription) ELSE description)

\* The record pushed for a page: empty fields when the fetch failed.
RowFor(url, resp) ==
    IF ~resp.ok THEN Row(url, <<>>, <<>>) ELSE ExtractMetaFromHtml(resp.body, url)

(***************************************************************************)
(* getGroupNameFromUrl                                                     *)
(***************************************************************************)

\* part.charAt(0).toUpperCase() + part.slice(1), for the first token of a part.
UpperFirst(tok) ==
    CASE tok = "blog" -> "Blog"
      [] tok = "sub" -> "Sub"
      [] tok = "my" -> "My"
      [] tok = "post" -> "Post"
      [] tok = "about" -> "About"
      [] OTHER -> tok

\* slug.split(/[-_]+/): a run of separators splits once.
RECURSIVE SplitRunsAcc(_, _, _, _, _)
SplitRunsAcc(rest, seps, cur, acc, inRun) ==
    IF rest = <<>> THEN Append(acc, cur)
    ELSE IF Head(rest) \in seps
         THEN IF inRun THEN SplitRunsAcc(Tail(rest), seps, cur, acc, TRUE)
              ELSE SplitRunsAcc(Tail(rest), seps, <<>>, Append(acc, cur), TRUE)
    ELSE SplitRunsAcc(Tail(rest), seps, Append(cur, Head(rest)), acc, FALSE)

SplitRuns(slug, seps) == SplitRunsAcc(slug, seps, <<>>, <<>>, FALSE)

\* .filter(Boolean) on an array of strings
RECURSIVE FilterBoolean(_)
FilterBoolean(parts) ==
    IF parts = <<>> THEN <<>>
    ELSE (IF Head(parts) # <<>> THEN <<Head(parts)>> ELSE <<>>) \o FilterBoolean(Tail(parts))

\* .map((part) => part.charAt(0).toUpperCase() + part.slice(1))
RECURSIVE CapitalizeAll(_)
CapitalizeAll(parts) ==
    IF parts = <<>> THEN <<>>
    ELSE << <<UpperFirst(Head(parts)[1])>> \o Tail(Head(parts)) >> \o CapitalizeAll(Tail(parts))

ToTitleFromSlug(slug) ==
    IF slug = <<>> THEN <<>>
    ELSE Join(CapitalizeAll(FilterBoolean(SplitRuns(slug, {"-", "_"}))), " ")

\* u.pathname of a URL that parsed: what follows the host up to the query or the
\* fragment, "/" when that is empty.
RECURSIVE UpToQuery(_)
UpToQuery(str) ==
    IF str = <<>> \/ Head(str) \in {"?", "#"} THEN <<>>
    ELSE <<Head(str)>> \o UpToQuery(Tail(str))

Pathname(url) ==
    LET path == UpToQuery(SubSeq(url, 3, Len(url)))
    IN  IF path = <<>> THEN <<"/">> ELSE path

\* `segments[segments.length - 2]`
FolderSegmentFirst(segments) == segments[1]

FolderSegment(segments) == segments[Len(segments) - 1]

GetGroupNameFromUrl(url) ==
    IF ~UrlParses(url) THEN <<"Page">>
    ELSE LET pathname == Pathname(url)
             path == IF Len(pathname) > 1 /\ pathname[Len(pathname)] = "/"
                     THEN SubSeq(pathname, 1, Len(pathname) - 1)
                     ELSE pathname
             segments == FilterBoolean(Split(path, "/"))
         IN  IF Len(segments) <= 1 THEN <<"Page">>
             ELSE LET title == ToTitleFromSlug(FolderSegment(segments))
                  IN  IF title = <<>> THEN <<"Page">> ELSE title

MaxPathLen == 6

\* The URLs the function is called on: a site followed by nothing, a path or a
\* query; strings that are no URL; and four URLs of the documentation.
PathTokens == {"/", "-", "_", "blog", "my", "?"}
SiteOfGroupUrls == <<"https://", "x.com">>
UrlRoot == SiteOfGroupUrls \o <<"/">>
UrlAbout == SiteOfGroupUrls \o <<"/", "about">>
UrlBlogPost == SiteOfGroupUrls \o <<"/", "blog", "/", "my", "-", "post">>
UrlBlogSubPost == SiteOfGroupUrls \o <<"/", "blog", "/", "sub", "/", "my", "-", "post">>

GroupUrls ==
    { SiteOfGroupUrls \o path : path \in { q \in SeqsUpTo(PathTokens, MaxPathLen) :
                                             q = <<>> \/ q[1] \in {"/", "?"} } }
    \cup { <<"p1">>, <<"x.com", "/", "blog", "/", "my">>, <<>> }
    \cup { UrlRoot, UrlAbout, UrlBlogPost, UrlBlogSubPost }

\* getGroupNameFromUrl(url) returns.
GroupReturn ==
    /\ pc = "groupCall"
    /\ groupName' = GetGroupNameFromUrl(groupUrl)
    /\ pc' = "groupReturned"
    /\ UNCHANGED <<groupUrl, discVars, smVars, runVars, faqVars, outVars, urlVars, metaVars>>

\* One call getGroupNameFromUrl(url).
InitGroup ==
    /\ pc = "groupCall"
    /\ origin = <<>>
    /\ groupUrl \in GroupUrls
    /\ groupName = <<>>
    /\ NoDiscover /\ NoSitemapCall /\ NoRun /\ NoFaq /\ NoOutput /\ NoUrlCall /\ NoMetaCall

NextGroup == GroupReturn

SpecGroup == InitGroup /\ [][NextGroup]_vars

\* The maximal runs of tokens of str that are not in seps, in order.
RECURSIVE RunsOf(_, _)
RECURSIVE TakeRun(_, _)
RECURSIVE DropRun(_, _)
TakeRun(str, seps) ==
    IF str = <<>> \/ Head(str) \in seps THEN <<>>
    ELSE <<Head(str)>> \o TakeRun(Tail(str), seps)
DropRun(str, seps) ==
    IF str = <<>> \/ Head(str) \in seps THEN str ELSE DropRun(Tail(str), seps)
RunsOf(str, seps) ==
    IF str = <<>> THEN <<>>
    ELSE IF Head(str) \in seps THEN RunsOf(Tail(str), seps)
    ELSE <<TakeRun(str, seps)>> \o RunsOf(DropRun(str, seps), seps)

\* Title Case of a segment: its parts with the first character in upper case,
\* joined by single spaces.
RECURSIVE TitleCase(_)
TitleCase(parts) ==
    IF parts = <<>> THEN <<>>
    ELSE <<UpperFirst(parts[1][1])>> \o Tail(parts[1])
         \o (IF Len(parts) > 1 THEN <<" ">> \o TitleCase(Tail(parts)) ELSE <<>>)

\* The group the documentation gives a URL.
GroupOf(url) ==
    IF Len(url) < 2 \/ url[1] \notin Schemes \/ url[2] \notin Hosts THEN <<"Page">>
    ELSE LET segs == RunsOf(TakeRun(SubSeq(url, 3, Len(url)), {"?", "#"}), {"/"})
         IN  IF Len(segs) <= 1 THEN <<"Page">>
             ELSE LET form == TitleCase(RunsOf(segs[Len(segs) - 1], {"-", "_"}))
                  IN  IF form = <<>> THEN <<"Page">> ELSE form

\* C11: the group of a URL is "Page" when its path has at most one non-empty
\* segment or the URL does not parse, else the Title Case form of the segment
\* before the last, or "Page" when that form is empty; the four documented URLs
\* give "Page", "Page", "Blog" and "Sub".
C11_GroupOfUrl ==
    pc = "groupReturned" =>
        /\ groupName = GroupOf(groupUrl)
        /\ groupUrl \in {UrlRoot, UrlAbout} => groupName = <<"Page">>
        /\ groupUrl = UrlBlogPost => groupName = <<"Blog">>
        /\ groupUrl = UrlBlogSubPost => groupName = <<"Sub">>

\* The call has returned "Sub" for https://x.com/blog/sub/my-post.
C11_Witness ==
    /\ pc = "groupReturned"
    /\ groupUrl = UrlBlogSubPost
    /\ groupName = <<"Sub">>

(***************************************************************************)
(* buildLlmsTextFromMetadata and downloadMetadataCSV                       *)
(*                                                                         *)
(* A line is a string; the document is its lines joined by line feeds.     *)
(***************************************************************************)

\* `if (!url || !title || !description) continue;`
IsCompleteNoDescription(url, title, description) == url # <<>> /\ title # <<>>

IsComplete(url, title, description) == url # <<>> /\ title # <<>> /\ description # <<>>

\* `- [${title}](${url}): ${description}`
BulletLine(title, url, description) ==
    <<"-", " ", "[">> \o title \o <<"]", "(">> \o url \o <<")", ":", " ">> \o description

\* `## ${groupName}`
HeadingLine(name) == <<"#", "#", " ">> \o name

\* The Map `groups` as the sequence of its entries [name, lines], in insertion
\* order, after the loop over the rows from `rows` on.
RECURSIVE GroupRows(_, _)
GroupRows(rows, groups) ==
    IF rows = <<>> THEN groups
    ELSE LET url == Trim(Head(rows).url)
             title == Trim(Head(rows).meta_title)
             description == Trim(Head(rows).meta_description)
             name == GetGroupNameFromUrl(url)
             line == BulletLine(title, url, description)
         IN  IF ~IsComplete(url, title, description) THEN GroupRows(Tail(rows), groups)
             ELSE IF \E i \in 1..Len(groups) : groups[i].name = name
             THEN GroupRows(Tail(rows),
                     [i \in 1..Len(groups) |->
                         IF groups[i].name = name
                         THEN [groups[i] EXCEPT !.lines = Append(@, line)]
                         ELSE groups[i]])
             ELSE GroupRows(Tail(rows), Append(groups, [name |-> name, lines |-> <<line>>]))

IsPageGroup(g) == g.name = <<"Page">>
IsOtherGroup(g) == g.name # <<"Page">>

\* orderedGroups, with no group put first
OrderedGroupsInsertion(groups) == groups

\* orderedGroups: "Page" first if it exists, then the others in insertion order
OrderedGroups(groups) == SelectSeq(groups, IsPageGroup) \o SelectSeq(groups, IsOtherGroup)

\* orderedGroups.forEach, from index on
RECURSIVE GroupLines(_, _)
GroupLines(ordered, index) ==
    IF index > Len(ordered) THEN <<>>
    ELSE <<HeadingLine(ordered[index].name), <<>>>> \o ordered[index].lines
         \o (IF index < Len(ordered) THEN << <<>>, <<>> >> ELSE <<>>)
         \o GroupLines(ordered, index + 1)

\* The body of faqItems.forEach
RECURSIVE FaqItemLines(_)
FaqItemLines(items) ==
    IF items = <<>> THEN <<>>
    ELSE LET q == Trim(Head(items).question)
             a == Trim(Head(items).answer)
         IN  (IF q = <<>> \/ a = <<>> THEN <<>>
              ELSE << <<"- user question:">>, q, <<>>, <<"- agent answer:">>, a, <<>>,
                      <<"---">>, <<>> >>) \o FaqItemLines(Tail(items))

FaqHeading == <<"Frequently Asked Questions (FAQ)">>

\* appendFaqSection with the early return taken when no item is complete.
AppendFaqSectionIfComplete(items) ==
    IF FaqItemLines(items) = <<>> THEN <<>>
    ELSE << <<>>, FaqHeading, <<"================================">>, <<>> >>
         \o FaqItemLines(items)

\* appendFaqSection(lines): the lines it pushes
AppendFaqSection(items) ==
    IF items = <<>> THEN <<>>
    ELSE << <<>>, FaqHeading, <<"================================">>, <<>> >>
         \o FaqItemLines(items)

NoCompleteRows == <<"// No complete rows (URL + title + description) found.">>

\* The array `lines` of buildLlmsTextFromMetadata
LlmsLines(rows, items) ==
    LET groups == GroupRows(rows, <<>>)
    IN  (IF groups = <<>> THEN << HeadingLine(<<"Page">>), <<>>, NoCompleteRows >>
         ELSE GroupLines(OrderedGroups(groups), 1))
        \o AppendFaqSection(items)

\* lines.join("\n"), of the array `lines` as it stands after the pushes
BuildLlmsText(rows, items) ==
    CHOOSE text \in { JoinWith(lines, <<LF>>) : lines \in {LlmsLines(rows, items)} } : TRUE

\* escapeCSV(value), for a string
RECURSIVE DoubleQuotes(_)
DoubleQuotes(str) ==
    IF str = <<>> THEN <<>>
    ELSE (IF Head(str) = "\"" THEN <<"\"", "\"">> ELSE <<Head(str)>>) \o DoubleQuotes(Tail(str))

EscapeCSV(value) ==
    LET str == DoubleQuotes(value)
    IN  IF \E i \in 1..Len(str) : str[i] \in {"\"", ",", LF}
        THEN <<"\"">> \o str \o <<"\"">>
        ELSE str

CsvHeader == << <<"url">>, <<"meta_title">>, <<"meta_description">> >>

\* header.map((key) => escapeCSV(row[key])).join(",")
CsvLine(row) ==
    JoinWith(<< EscapeCSV(row.url), EscapeCSV(row.meta_title),
                EscapeCSV(row.meta_description) >>, <<",">>)

\* The rows the export writes
CsvRowsOfComplete(rows) ==
    SelectSeq(rows, LAMBDA r : IsComplete(r.url, r.meta_title, r.meta_description))

CsvRows(rows) == rows

\* rows.join("\n"), the header first
CsvText(rows) ==
    JoinWith(<< JoinWith(CsvHeader, <<",">>) >>
             \o [i \in 1..Len(CsvRows(rows)) |-> CsvLine(CsvRows(rows)[i])], <<LF>>)

MaxRows == 3

\* Record lists as a run leaves them: fields trimmed, any of them possibly empty.
RenderRows ==
    { Row(UrlAbout, <<"t1">>, <<"d1">>),
      Row(UrlBlogPost, <<"t1">>, <<"d1">>),
      Row(UrlBlogPost, <<"t2">>, <<"d2", ",", "e">>),
      Row(SiteOfGroupUrls \o <<"/", "my", "/", "x">>, <<"t2">>, <<"d1">>),
      Row(<<"p1">>, <<"t1">>, <<>>),
      Row(UrlAbout, <<>>, <<"d1">>),
      Row(<<>>, <<"t1">>, <<"d1">>),
      Row(<<"p2">>, <<>>, <<>>),
      Row(<<"b">>, <<"a">>, <<"c", "]", "(", "b", ")", ":", " ", "c">>),
      Row(<<"b">>, <<"a", "]", "(", "b", ")", ":", " ", "c">>, <<"c">>) }

RenderFaqLists ==
    { <<>>,
      << [question |-> <<"lq1">>, answer |-> <<"la1">>] >>,
      << [question |-> <<>>, answer |-> <<"la1">>] >>,
      << [question |-> <<"lq1">>, answer |-> <<"la1">>],
         [question |-> <<"lq2">>, answer |-> <<"la2", LF, LF, "la3">>] >>,
      << [question |-> <<" ">>, answer |-> <<"la1">>],
         [question |-> <<" ", "lq2">>, answer |-> <<"la2", " ">>],
         [question |-> <<"lq1">>, answer |-> <<>>] >> }

\* buildLlmsTextFromMetadata()
Build ==
    /\ pc = "render"
    /\ llmsTextContent' = BuildLlmsText(metadataRows, faqItems)
    /\ pc' = "built"
    /\ UNCHANGED <<csvDisabled, llmsDisabled, csvFile, discVars, smVars, runVars, faqVars,
                   groupVars, urlVars, metaVars>>

\* downloadMetadataCSV()
DownloadMetadataCSV ==
    /\ pc = "built"
    /\ csvFile' = IF metadataRows = <<>> THEN csvFile ELSE CsvText(metadataRows)
    /\ pc' = "downloaded"
    /\ UNCHANGED <<llmsTextContent, csvDisabled, llmsDisabled, discVars, smVars, runVars,
                   faqVars, groupVars, urlVars, metaVars>>

\* A record list and a FAQ item list, rendered and then exported.
InitRender ==
    /\ pc = "render"
    /\ origin = <<>>
    /\ NoDiscover /\ NoSitemapCall /\ NoFaq /\ NoOutput /\ NoGroupCall /\ NoUrlCall /\ NoMetaCall
    /\ smIdx = 0
    /\ allUrls = <<>>
    /\ pageIdx = 0
    /\ pageResp = <<>>
    /\ found = {}
    /\ delayMs = 0
    /\ status = StatusText("", 0)
    /\ statusError = FALSE
    /\ metadataRows \in SeqsUpTo(RenderRows, MaxRows)
    /\ faqItems \in RenderFaqLists
    /\ otherRun = IdleRun
    /\ issued = {}
    /\ faqUrlState = "none"

NextRender ==
    \/ Build
    \/ DownloadMetadataCSV

SpecRender == InitRender /\ [][NextRender]_vars

(***************************************************************************)
(* Properties of the rendered document and of the CSV export               *)
(***************************************************************************)

Rendered == pc \in {"built", "downloaded"}

\* The lines of a text: what stands between its line feeds.
RECURSIVE LinesFrom(_, _)
LinesFrom(text, start) ==
    LET feeds == {i \in start..Len(text) : text[i] = LF}
        next == IF feeds = {} THEN Len(text) + 1
                ELSE CHOOSE i \in feeds : \A j \in feeds : i <= j
    IN  <<SubSeq(text, start, next - 1)>>
        \o (IF next > Len(text) THEN <<>> ELSE LinesFrom(text, next + 1))

LinesOf(text) == LinesFrom(text, 1)

DocLines == LinesOf(llmsTextContent)

IsBullet(line) == Len(line) >= 3 /\ line[1] = "-" /\ line[2] = " " /\ line[3] = "["
IsHeading(line) == Len(line) >= 3 /\ line[1] = "#" /\ line[2] = "#" /\ line[3] = " "

\* A record with a URL, a title and a description that are non-empty when trimmed.
RowIsFull(r) ==
    Trim(r.url) # <<>> /\ Trim(r.meta_title) # <<>> /\ Trim(r.meta_description) # <<>>

FullRows == SelectSeq(metadataRows, RowIsFull)

BulletOf(r) == BulletLine(Trim(r.meta_title), Trim(r.url), Trim(r.meta_description))

\* C12: a record has a bullet line in the document exactly if its three fields are
\* non-empty when trimmed; there are as many bullet lines as such records, and the
\* document is the one the other records' absence would give.
C12_OnlyFullRowsRendered ==
    Rendered =>
        LET lines == DocLines IN
        /\ Len(SelectSeq(lines, IsBullet)) = Len(FullRows)
        /\ \A i \in 1..Len(metadataRows) :
               RowIsFull(metadataRows[i]) <=> BulletOf(metadataRows[i]) \in Range(lines)
        /\ llmsTextContent = BuildLlmsText(FullRows, faqItems)

\* A document was rendered from a full record, a record without a description and
\* a record without a title.
C12_Witness ==
    /\ Rendered
    /\ Len(FullRows) = 1
    /\ \E i, j \in 1..Len(metadataRows) :
        /\ metadataRows[i].meta_description = <<>> /\ metadataRows[i].meta_title # <<>>
        /\ metadataRows[j].meta_title = <<>> /\ metadataRows[j].meta_description # <<>>

\* The group headings of the document, in order.
HeadingNamesOf(lines) ==
    LET hs == SelectSeq(lines, IsHeading)
    IN  [i \in 1..Len(hs) |-> SubSeq(hs[i], 4, Len(hs[i]))]

HeadingNames == HeadingNamesOf(DocLines)

RowGroup(r) == GetGroupNameFromUrl(Trim(r.url))

\* The groups of the full records in the order their first members occur.
GroupsFirstSeen == Dedupe([i \in 1..Len(FullRows) |-> RowGroup(FullRows[i])])

IsPageName(name) == name = <<"Page">>
IsOtherName(name) == name # <<"Page">>

\* The bullet lines that follow the heading of a group, up to the next heading.
RECURSIVE BulletsUntilHeading(_)
BulletsUntilHeading(lines) ==
    IF lines = <<>> \/ IsHeading(Head(lines)) THEN <<>>
    ELSE (IF IsBullet(Head(lines)) THEN <<Head(lines)>> ELSE <<>>)
         \o BulletsUntilHeading(Tail(lines))

BulletsUnder(lines, name) ==
    LET k == CHOOSE i \in 1..Len(lines) : lines[i] = HeadingLine(name)
    IN  BulletsUntilHeading(SubSeq(lines, k + 1, Len(lines)))

\* The bullet lines of the full records of a group, in record order.
RECURSIVE BulletsOfGroup(_, _)
BulletsOfGroup(rows, name) ==
    IF rows = <<>> THEN <<>>
    ELSE (IF RowGroup(Head(rows)) = name THEN <<BulletOf(Head(rows))>> ELSE <<>>)
         \o BulletsOfGroup(Tail(rows), name)

\* C13: each group heading appears once; "Page" is first whenever it has a member,
\* the other groups follow in the order of their first members, and the bullet
\* lines of a group keep the order of their records.
C13_GroupOrder ==
    Rendered =>
        LET lines == DocLines
            names == HeadingNamesOf(lines)
            full == FullRows
        IN  /\ NoDuplicates(names)
            /\ full # <<>> =>
                   names = SelectSeq(GroupsFirstSeen, IsPageName)
                           \o SelectSeq(GroupsFirstSeen, IsOtherName)
            /\ full = <<>> => names = << <<"Page">> >>
            /\ \A i \in 1..Len(names) :
                   BulletsUnder(lines, names[i]) = BulletsOfGroup(full, names[i])

\* A document was rendered from three full records of three groups, the member of
\* "Page" last in the record list, and its heading is first.
C13_Witness ==
    /\ Rendered
    /\ Len(FullRows) = 3
    /\ RowGroup(FullRows[1]) = <<"Blog">>
    /\ RowGroup(FullRows[2]) = <<"My">>
    /\ RowGroup(FullRows[3]) = <<"Page">>
    /\ HeadingNames = << <<"Page">>, <<"Blog">>, <<"My">> >>

\* C14 as claimed: the bullet line of an included record determines its title, URL
\* and description, so that parsing the line gives the record back.
C14_BulletLineRoundTrip ==
    Rendered =>
        \A i, j \in 1..Len(FullRows) :
            BulletOf(FullRows[i]) = BulletOf(FullRows[j]) =>
                /\ Trim(FullRows[i].meta_title) = Trim(FullRows[j].meta_title)
                /\ Trim(FullRows[i].url) = Trim(FullRows[j].url)
                /\ Trim(FullRows[i].meta_description) = Trim(FullRows[j].meta_description)

CsvLines == LinesOf(csvFile)

PlainField(str) == \A i \in 1..Len(str) : str[i] \notin {"\"", ",", LF}
PlainRow(r) == PlainField(r.url) /\ PlainField(r.meta_title) /\ PlainField(r.meta_description)

\* C15: the export is the header row and then one row per record of the record
\* list, with the record's fields; a record the document leaves out is in it, with
\* its empty field empty.
C15_CsvHasEveryRecord ==
    (pc = "downloaded" /\ metadataRows # <<>>) =>
        /\ Len(CsvLines) = Len(metadataRows) + 1
        /\ CsvLines[1] = <<"url", ",", "meta_title", ",", "meta_description">>
        /\ \A i \in 1..Len(metadataRows) :
               PlainRow(metadataRows[i]) =>
                   Split(CsvLines[i + 1], ",") =
                       << metadataRows[i].url, metadataRows[i].meta_title,
                          metadataRows[i].meta_description >>
        /\ LET lines == DocLines IN
           \A i \in 1..Len(metadataRows) :
               ~RowIsFull(metadataRows[i]) => BulletOf(metadataRows[i]) \notin Range(lines)

\* Two records, one of them without a title, were rendered and exported: one
\* bullet line under "## Page", and two rows after the header.
C15_Witness ==
    /\ pc = "downloaded"
    /\ Len(metadataRows) = 2
    /\ Len(FullRows) = 1
    /\ \E i \in 1..2 : metadataRows[i].meta_title = <<>>
    /\ HeadingNames = << <<"Page">> >>
    /\ Len(SelectSeq(DocLines, IsBullet)) = 1
    /\ Len(CsvLines) = 3

(***************************************************************************)
(* runUrlToLlmsFlow: the calls in flight                                   *)
(***************************************************************************)

\* The locals of the call the variables describe.
CurrentRun ==
    [ pc |-> pc, origin |-> origin, robotsText |-> robotsText, sitemapUrls |-> sitemapUrls,
      smStack |-> smStack, visitedSitemaps |-> visitedSitemaps, urls |-> urls,
      smResult |-> smResult, fetchLog |-> fetchLog, docs |-> docs, smIdx |-> smIdx,
      allUrls |-> allUrls, pageIdx |-> pageIdx, pageResp |-> pageResp, found |-> found,
      delayMs |-> delayMs, faqDoc |-> faqDoc, faqResult |-> faqResult, faqTier |-> faqTier,
      issued |-> issued, faqUrlState |-> faqUrlState ]

\* A call is suspended on an await.
InFlight(p) == p \notin {"idle", "aborted", "done"}

NoSitemapCallNext ==
    /\ smStack' = <<>>
    /\ visitedSitemaps' = {}
    /\ urls' = <<>>
    /\ smResult' = <<>>
    /\ fetchLog' = <<>>
    /\ docs' = <<>>

\* What the fields hold when the run button is clicked.
SiteInputs == { <<" ">>, <<" ", "x.com">>, <<"https://", "x.com", "/", "a">>, <<"x", " ", "y">> }
DelayInputs == { <<>>, <<"a">>, <<"-", "1">>, <<"0">>, <<"1">> }
FaqInputs == { <<" ">>, <<"faq">>, <<"https://", "x.com", "/", "faq", " ">>, <<"https://">> }

\* runBtn's click listener: runUrlToLlmsFlow() is called, whether or not an earlier
\* call is still suspended, and runs up to its first await.
ClickRun ==
    /\ ~(InFlight(pc) /\ InFlight(otherRun.pc))
    /\ otherRun' = IF InFlight(pc) THEN CurrentRun ELSE otherRun
    /\ metadataRows' = <<>>
    /\ faqItems' = <<>>
    /\ robotsText' = Failed
    /\ sitemapUrls' = <<>>
    /\ NoSitemapCallNext
    /\ smIdx' = 0
    /\ allUrls' = <<>>
    /\ pageIdx' = 0
    /\ pageResp' = <<>>
    /\ found' = {}
    /\ delayMs' = 0
    /\ faqDoc' = <<>>
    /\ faqResult' = <<>>
    /\ faqTier' = "none"
    /\ faqUrlState' = "none"
    /\ llmsTextContent' = <<>>
    /\ csvDisabled' = TRUE
    /\ llmsDisabled' = TRUE
    /\ UNCHANGED <<csvFile, groupVars, urlVars, metaVars>>
    /\ \E input \in SiteInputs :
        LET rawUrl == Trim(input)
            site == ParseSiteUrl(rawUrl)
        IN  IF rawUrl = <<>>
            THEN /\ status' = StatusText("Please enter a site URL.", 0)
                 /\ statusError' = TRUE
                 /\ origin' = <<>>
                 /\ issued' = {}
                 /\ pc' = "aborted"
            ELSE IF ~site.ok
            THEN /\ status' = StatusText("Invalid URL. Please check and try again.", 0)
                 /\ statusError' = TRUE
                 /\ origin' = <<>>
                 /\ issued' = {}
                 /\ pc' = "aborted"
            ELSE /\ status' = StatusText("Discovering sitemaps", 0)
                 /\ statusError' = FALSE
                 /\ origin' = OriginOf(site.url)
                 /\ issued' = {"robots"}
                 /\ pc' = "robotsFetch"

\* The event loop resumes the other suspended call.
ResumeOther ==
    /\ InFlight(otherRun.pc)
    /\ otherRun' = IF InFlight(pc) THEN CurrentRun ELSE IdleRun
    /\ pc' = otherRun.pc
    /\ origin' = otherRun.origin
    /\ robotsText' = otherRun.robotsText
    /\ sitemapUrls' = otherRun.sitemapUrls
    /\ smStack' = otherRun.smStack
    /\ visitedSitemaps' = otherRun.visitedSitemaps
    /\ urls' = otherRun.urls
    /\ smResult' = otherRun.smResult
    /\ fetchLog' = otherRun.fetchLog
    /\ docs' = otherRun.docs
    /\ smIdx' = otherRun.smIdx
    /\ allUrls' = otherRun.allUrls
    /\ pageIdx' = otherRun.pageIdx
    /\ pageResp' = otherRun.pageResp
    /\ found' = otherRun.found
    /\ delayMs' = otherRun.delayMs
    /\ faqDoc' = otherRun.faqDoc
    /\ faqResult' = otherRun.faqResult
    /\ faqTier' = otherRun.faqTier
    /\ issued' = otherRun.issued
    /\ faqUrlState' = otherRun.faqUrlState
    /\ UNCHANGED <<status, statusError, metadataRows, faqItems, outVars, groupVars, urlVars, metaVars>>

\* discoverSitemaps has returned: the loop over sitemapUrls starts.
AfterDiscover ==
    /\ pc = "discovered"
    /\ IF sitemapUrls = <<>>
       THEN /\ status' = StatusText("No sitemap URLs discovered.", 0)
            /\ statusError' = TRUE
            /\ pc' = "aborted"
            /\ UNCHANGED <<smVars, smIdx, issued>>
       ELSE /\ status' = StatusText("Found sitemap URL(s). Fetching URLs...", Len(sitemapUrls))
            /\ statusError' = statusError
            /\ smIdx' = 1
            /\ CallExtractUrls(sitemapUrls[1])
            /\ issued' = issued \cup {"sitemap"}
            /\ pc' = "sm"
    /\ UNCHANGED <<discVars, faqVars, origin, allUrls, pageIdx, pageResp, found, delayMs,
                   metadataRows, faqItems, otherRun, faqUrlState, outVars, groupVars, urlVars, metaVars>>

\* Where a run that got past the FAQ step ends.
LastPositionAborted == "aborted"

LastPosition == "done"

\* The end of the run: buildLlmsTextFromMetadata(), the download buttons and the
\* Done status, the error class being what the FAQ step left.
Finish(error) ==
    /\ pc' = LastPosition
    /\ llmsTextContent' = BuildLlmsText(metadataRows', faqItems')
    /\ csvDisabled' = (metadataRows' = <<>>)
    /\ llmsDisabled' = (llmsTextContent' = <<>>)
    /\ csvFile' = csvFile
    /\ status' = StatusText("Done. Scraped page(s).", Len(metadataRows'))
    /\ statusError' = error

\* After the page loop: fetchAndExtractFaqFromUrl up to its fetch if the FAQ field
\* holds a URL, and the end of the run if there is no fetch to wait for.
AfterPages ==
    \E input \in FaqInputs :
        LET rawFaqUrl == Trim(input) IN
        IF rawFaqUrl = <<>>
        THEN /\ faqUrlState' = "empty"
             /\ issued' = issued
             /\ Finish(statusError)
        ELSE IF ~ParseFaqUrl(rawFaqUrl, origin).ok
        THEN /\ faqUrlState' = "invalid"
             /\ issued' = issued
             /\ Finish(TRUE)
        ELSE /\ faqUrlState' = "valid"
             /\ issued' = issued \cup {"faq"}
             /\ pc' = "faqFetch"
             /\ status' = StatusText("Fetching FAQ page", 0)
             /\ statusError' = FALSE
             /\ UNCHANGED outVars

\* The next iteration of `for (const url of allUrls)`, the status text being
\* shown, or the end of the loop.
NextPage(shown) ==
    IF pageIdx < Len(allUrls)
    THEN /\ pageIdx' = pageIdx + 1
         /\ pc' = "pageFetch"
         /\ status' = shown
         /\ statusError' = statusError
         /\ issued' = issued \cup {"page"}
         /\ UNCHANGED <<faqUrlState, outVars>>
    ELSE /\ pageIdx' = pageIdx
         /\ AfterPages

\* extractUrlsFromSitemap(smUrl) has returned: its URLs join allUrlsSet, then the
\* next sitemap, or the end of the loop and the first page fetch.
CollectUrls ==
    /\ pc = "smReturned"
    /\ allUrls' = SetAddAll(allUrls, smResult)
    /\ IF smIdx < Len(sitemapUrls)
       THEN /\ smIdx' = smIdx + 1
            /\ CallExtractUrls(sitemapUrls[smIdx + 1])
            /\ issued' = issued \cup {"sitemap"}
            /\ pc' = "sm"
            /\ UNCHANGED <<status, statusError, delayMs, pageIdx>>
       ELSE /\ smIdx' = smIdx
            /\ NoSitemapCallNext
            /\ IF allUrls' = <<>>
               THEN /\ status' = StatusText("No URLs found in the discovered sitemaps.", 0)
                    /\ statusError' = TRUE
                    /\ pc' = "aborted"
                    /\ UNCHANGED <<delayMs, pageIdx, issued>>
               ELSE /\ status' = StatusText("Found URL(s). Scraping pages...", Len(allUrls'))
                    /\ statusError' = statusError
                    /\ \E delayVal \in DelayInputs : delayMs' = DelayOf(delayVal)
                    /\ pageIdx' = 1
                    /\ issued' = issued \cup {"page"}
                    /\ pc' = "pageFetch"
    /\ UNCHANGED <<discVars, faqVars, origin, pageResp, found, metadataRows, faqItems,
                   otherRun, faqUrlState, outVars, groupVars, urlVars, metaVars>>

\* fetchUrlGeneric(url, false) resolves in the page loop: the record is pushed, and
\* the loop waits for the delay or goes on.
PageFetchResp(Responses) ==
    /\ pc = "pageFetch"
    /\ \E r \in Responses :
        /\ metadataRows' = Append(metadataRows, RowFor(allUrls[pageIdx], r))
        /\ pageResp' = Append(pageResp, [url |-> allUrls[pageIdx], resp |-> r])
    /\ UNCHANGED <<discVars, smVars, faqVars, origin, smIdx, allUrls, found, delayMs,
                   faqItems, otherRun, groupVars, urlVars, metaVars>>
    /\ IF delayMs > 0
       THEN /\ pc' = "pageDelay"
            /\ status' = StatusText("Scraping pages", pageIdx)
            /\ UNCHANGED <<statusError, pageIdx, issued, faqUrlState, outVars>>
       ELSE NextPage(StatusText("Scraping pages", pageIdx))

\* The timer of `setTimeout(resolve, delayMs)` fires.
PageDelayDone ==
    /\ pc = "pageDelay"
    /\ UNCHANGED <<discVars, smVars, faqVars, origin, smIdx, allUrls, pageResp, found,
                   delayMs, metadataRows, faqItems, otherRun, groupVars, urlVars, metaVars>>
    /\ NextPage(status)

\* `if (!html)`: null or the empty string, which alone parses to a document with
\* nothing in it.
NoHtml(resp) == ~resp.ok \/ resp.body = [roots |-> <<>>, scripts |-> <<>>, body |-> <<>>]

\* fetchUrlGeneric(faqUrl.href, false) resolves in fetchAndExtractFaqFromUrl.
FaqFetchResp(Responses) ==
    /\ pc = "faqFetch"
    /\ UNCHANGED <<discVars, smVars, faqResult, faqTier, origin, smIdx, allUrls, pageIdx,
                   pageResp, found, delayMs, metadataRows, faqItems, otherRun, issued,
                   faqUrlState, groupVars, urlVars, metaVars>>
    /\ \E r \in Responses :
        IF NoHtml(r)
        THEN /\ faqDoc' = faqDoc
             /\ Finish(TRUE)
        ELSE /\ pc' = "faqParsed"
             /\ faqDoc' = r.body
             /\ UNCHANGED <<status, statusError, outVars>>

\* extractFaqItemsFromHtml(html) has returned: the items become the FAQ item list
\* if there are any, and the run ends.
AfterFaq ==
    /\ pc = "faqReturned"
    /\ faqItems' = IF faqResult = <<>> THEN faqItems ELSE faqResult
    /\ UNCHANGED <<discVars, smVars, faqVars, origin, smIdx, allUrls, pageIdx, pageResp,
                   found, delayMs, metadataRows, otherRun, issued, faqUrlState, groupVars, urlVars, metaVars>>
    /\ Finish(statusError)

\* What the network answers during a run.
RunRobotsTexts ==
    { Failed, Ok(<<"Sitemap", ":", "s1", LF, "sitemap", ":", " ", "s2">>) }

RunSitemapResponses ==
    { Failed,
      Ok([kind |-> "index", locs |-> << <<"s2">> >>]),
      Ok([kind |-> "urlset", locs |-> << <<"p1">> >>]),
      Ok([kind |-> "urlset", locs |-> << <<" ", "p1">>, <<"p2">> >>]) }

PageResponses ==
    { Failed,
      Ok(Html(<<" ", "t1">>, <<"o1">>, <<>>, <<"od1", " ">>)) }

RunFaqResponses ==
    { Failed,
      Ok(Doc(<<>>, <<>>, <<>>)),
      Ok(Doc(<<>>, <<Script(LdQ1)>>, << Node("h2", <<"What", " ", "hq1">>), Node("p", <<"ha1">>) >>)),
      Ok(Doc(<<>>, <<>>, << Node("p", <<"ha1">>) >>)) }

Init ==
    /\ pc = "idle"
    /\ origin = <<>>
    /\ NoDiscover /\ NoSitemapCall /\ NoRun /\ NoFaq /\ NoOutput /\ NoGroupCall /\ NoUrlCall /\ NoMetaCall

Next ==
    \/ ClickRun
    \/ ResumeOther
    \/ RobotsResp(RunRobotsTexts)
    \/ AfterDiscover
    \/ SmFetchResp(RunSitemapResponses)
    \/ SmLoop
    \/ SmReturn
    \/ CollectUrls
    \/ PageFetchResp(PageResponses)
    \/ PageDelayDone
    \/ FaqFetchResp(RunFaqResponses)
    \/ FaqMicrodataTier
    \/ FaqLdJsonTier
    \/ FaqHeadingsTier
    \/ AfterFaq

Spec == Init /\ [][Next]_vars

(***************************************************************************)
(* Properties of runUrlToLlmsFlow                                          *)
(***************************************************************************)

RowUrls == [i \in 1..Len(metadataRows) |-> metadataRows[i].url]

C16_InvalidUrlNoFetch ==
    /\ (pc = "aborted" /\ origin = <<>>) => issued = {}
    /\ faqUrlState = "invalid" => issued = {}

\* The run stopped after the sitemap phase, having found no sitemap or no page URL.
SitemapPhaseFoundNothing == pc = "aborted" /\ origin # <<>>

\* C17 as claimed: when the sitemap phase ends with no page URL the run stops in
\* the error state with no page fetched, an empty record list, an empty document
\* and both download buttons disabled.
C17_NothingFoundNothingKept ==
    SitemapPhaseFoundNothing =>
        /\ statusError
        /\ "page" \notin issued
        /\ metadataRows = <<>>
        /\ llmsTextContent = <<>>
        /\ csvDisabled
        /\ llmsDisabled

\* A call is suspended on a fetchUrlGeneric that has not settled.
FetchPending(run) ==
    \/ run.pc \in {"robotsFetch", "pageFetch", "faqFetch"}
    \/ run.pc = "sm" /\ run.smStack # <<>> /\ Top(run.smStack).state = "fetching"

\* C19 as claimed: at every moment at most one fetch is in flight.
C19_OneFetchInFlight == ~(FetchPending(CurrentRun) /\ FetchPending(otherRun))

\* The run has ended after a FAQ page on which no tier found an item.
NoFaqFound ==
    /\ pc = "done"
    /\ faqUrlState = "valid"
    /\ faqTier = "headings"
    /\ faqResult = <<>>

\* C20 as claimed: a run whose FAQ page gave no item ends without the error state
\* and its document has no FAQ section heading.
C20_NoFaqNoSection ==
    NoFaqFound =>
        /\ ~statusError
        /\ FaqHeading \notin Range(DocLines)

(***************************************************************************)
(* Progress of a run                                                       *)
(***************************************************************************)

\* What the network answers in the behaviours whose progress is examined: each
\* kind of fetch can fail, and can succeed with or without content.
FairRobotsTexts ==
    { Failed, Ok(<<"Sitemap", ":", "s1", LF, "sitemap", ":", " ", "s2">>) }

FairSitemapResponses ==
    { Failed,
      Ok([kind |-> "index", locs |-> << <<"s2">> >>]),
      Ok([kind |-> "urlset", locs |-> << <<"p1">> >>]) }

FairFaqResponses ==
    { Failed,
      Ok(Doc(<<>>, <<>>, << Node("p", <<"ha1">>) >>)),
      Ok(Doc(<<>>, <<>>, << Node("h2", <<"What", " ", "hq1">>), Node("p", <<"ha1">>) >>)) }

\* A step of the call in hand: an await of it settles and it runs to its next await.
RunStep ==
    \/ RobotsResp(FairRobotsTexts)
    \/ AfterDiscover
    \/ SmFetchResp(FairSitemapResponses)
    \/ SmLoop
    \/ SmReturn
    \/ CollectUrls
    \/ PageFetchResp(PageResponses)
    \/ PageDelayDone
    \/ FaqFetchResp(FairFaqResponses)
    \/ FaqMicrodataTier
    \/ FaqLdJsonTier
    \/ FaqHeadingsTier
    \/ AfterFaq

NextFair ==
    \/ ClickRun
    \/ ResumeOther
    \/ RunStep

\* The call in hand has a valid site URL and has discovered a page URL.
PagesDiscovered == InFlight(pc) /\ allUrls # <<>>

\* Every fetch and every timer settles, and the event loop resumes each suspended
\* call whose await has settled: a suspended call is taken in hand again, and a
\* call that has discovered its pages is not held up for ever, however often it is
\* set aside. Nothing obliges the user to click.
RunFairness ==
    /\ WF_vars(ResumeOther)
    /\ SF_vars(PagesDiscovered /\ RunStep)

SpecFair == Init /\ [][NextFair]_vars /\ RunFairness

\* The run has ended with the Done status and a rendered document.
DoneRendered ==
    /\ pc = "done"
    /\ status.text = "Done. Scraped page(s)."
    /\ llmsTextContent # <<>>
    /\ ~llmsDisabled

\* C18: once a run has discovered a page URL it is never the one that stops in
\* the aborted state (only a newly started call can be there while this one stays
\* suspended), and the Done state with a rendered document is always reached,
\* whichever fetches fail.
C18_ReachesDone ==
    /\ [][(PagesDiscovered /\ pc' = "aborted") => otherRun' = CurrentRun]_vars
    /\ PagesDiscovered ~> DoneRendered

\* A run ended Done with a rendered document although a page fetch and the FAQ
\* page fetch had failed.
C18_Witness ==
    /\ DoneRendered
    /\ \E i \in 1..Len(pageResp) : ~pageResp[i].resp.ok
    /\ faqUrlState = "valid"
    /\ faqTier = "none"
    /\ statusError
    /\ otherRun.pc = "idle"

(***************************************************************************)
(* The delay, the URL fields and the end of a run                          *)
(***************************************************************************)

\* C21 as claimed: whenever the run waits for the delay timer, the delay is
\* positive and a further page fetch follows the wait, so that the wait stands
\* between two page fetches and never before the FAQ page fetch or the end.
C21_DelayOnlyBetweenPages ==
    pc = "pageDelay" =>
        /\ delayMs > 0
        /\ pageIdx < Len(allUrls)

\* What the two URL fields hold when they are parsed on their own.
UrlSiteFields ==
    { <<>>, <<"x.com">>, <<" ", "y.org", "/", "faq", " ">>, <<"https://", "x.com">>,
      <<"http://", "y.org", "/", "a">>, <<"x.com", " ", "faq">>, <<"x.com", "/", "faq">> }
UrlFaqFields ==
    { <<>>, <<" ">>, <<"faq">>, <<"/", "faq">>, <<"x.com", "/", "faq">>, <<"y.org", "/", "faq">>,
      <<"y.org">>, <<"https://", "x.com", "/", "faq">>, <<"http://", "y.org", "/", "faq", " ">>,
      <<"https://", "y.org">>, <<"https://">>, <<" ", "x.com", "/", "faq", " ">> }

\* runUrlToLlmsFlow up to `const origin = urlObj.origin`: the site field is trimmed
\* and parsed as it stands, then with "https://" in front.
ParseSiteField ==
    /\ pc = "urlCall"
    /\ LET rawUrl == Trim(urlField)
           site == ParseSiteUrl(rawUrl)
       IN  IF rawUrl = <<>> \/ ~site.ok
           THEN /\ pc' = "urlRejected"
                /\ UNCHANGED <<origin, urlObj>>
           ELSE /\ pc' = "urlParsed"
                /\ urlObj' = site
                /\ origin' = OriginOf(site.url)
    /\ UNCHANGED <<urlField, faqField, faqUrlObj, discVars, smVars, smIdx, allUrls, pageIdx,
                   pageResp, found, delayMs, status, statusError, metadataRows, faqItems,
                   otherRun, issued, faqUrlState, faqVars, outVars, groupVars, metaVars>>

\* The FAQ step of the run and the head of fetchAndExtractFaqFromUrl: an empty
\* field is skipped, any other is parsed as it stands, then against the origin.
ParseFaqField ==
    /\ pc = "urlParsed"
    /\ LET rawFaqUrl == Trim(faqField)
       IN  IF rawFaqUrl = <<>>
           THEN /\ pc' = "faqUrlSkipped"
                /\ UNCHANGED faqUrlObj
           ELSE /\ pc' = "faqUrlParsed"
                /\ faqUrlObj' = ParseFaqUrl(rawFaqUrl, origin)
    /\ UNCHANGED <<urlField, faqField, urlObj, discVars, smVars, runVars, faqVars, outVars,
                   groupVars, metaVars>>

InitUrl ==
    /\ pc = "urlCall"
    /\ origin = <<>>
    /\ urlField \in UrlSiteFields
    /\ faqField \in UrlFaqFields
    /\ urlObj = Failed
    /\ faqUrlObj = Failed
    /\ NoDiscover /\ NoSitemapCall /\ NoRun /\ NoFaq /\ NoOutput /\ NoGroupCall /\ NoMetaCall

NextUrl == ParseSiteField \/ ParseFaqField

SpecUrl == InitUrl /\ [][NextUrl]_vars

Schemeless(raw) == raw # <<>> /\ raw[1] \notin Schemes

WithHttps(raw) == <<"https://">> \o raw

\* C22 as claimed: a schemeless site field denotes "https://" followed by the
\* trimmed field, and so does a schemeless FAQ field: whenever "https://" followed
\* by the field is a URL, the FAQ URL object is that URL.
C22_SchemelessMeansHttps ==
    /\ (pc \in {"urlParsed", "faqUrlSkipped", "faqUrlParsed"} /\ Schemeless(Trim(urlField)))
           => urlObj.url = WithHttps(Trim(urlField))
    /\ (pc = "faqUrlParsed" /\ Schemeless(Trim(faqField))
           /\ UrlParses(WithHttps(Trim(faqField))))
           => /\ faqUrlObj.ok
              /\ faqUrlObj.url = HrefOf(WithHttps(Trim(faqField)))

(***************************************************************************)
(* One call of extractMetaFromHtml                                         *)
(***************************************************************************)

\* The text of <title>, the content of og:title, of the meta description and of
\* og:description that a page may carry: missing, blank, or a padded word.
TitleTexts == { <<>>, <<" ">>, <<" ", "t1", " ">> }
OgTitleTexts == { <<>>, <<" ">>, <<"o1", " ">> }
DescriptionTexts == { <<>>, <<" ">>, <<" ", "d1">> }
OgDescriptionTexts == { <<>>, <<" ">>, <<"od1">> }
MetaUrls == { <<"p1">>, <<"p2">> }

MetaReturn ==
    /\ pc = "metaCall"
    /\ metaResult' = ExtractMetaFromHtml(metaHtml, metaUrl)
    /\ pc' = "metaReturned"
    /\ UNCHANGED <<metaHtml, metaUrl, discVars, smVars, runVars, faqVars, outVars, groupVars,
                   urlVars>>

InitMeta ==
    /\ pc = "metaCall"
    /\ origin = <<>>
    /\ metaHtml \in { Html(t, ot, d, od) : t \in TitleTexts, ot \in OgTitleTexts,
                                           d \in DescriptionTexts, od \in OgDescriptionTexts }
    /\ metaUrl \in MetaUrls
    /\ metaResult = <<>>
    /\ NoDiscover /\ NoSitemapCall /\ NoRun /\ NoFaq /\ NoOutput /\ NoGroupCall /\ NoUrlCall

NextMeta == MetaReturn

SpecMeta == InitMeta /\ [][NextMeta]_vars

\* The first of two texts that is non-empty once trimmed, trimmed; else nothing.
FirstNonEmptyTrimmed(first, second) ==
    IF Trim(first) # <<>> THEN Trim(first)
    ELSE IF Trim(second) # <<>> THEN Trim(second)
    ELSE <<>>

\* C23: extractMetaFromHtml returns, for every page, the url passed in, the
\* trimmed <title> text if that is non-empty, else the trimmed og:title content,
\* else the empty string, and the trimmed meta description if non-empty, else the
\* trimmed og:description content, else the empty string.
C23_MetaPrecedence ==
    pc = "metaReturned" =>
        /\ metaResult.url = metaUrl
        /\ metaResult.meta_title = FirstNonEmptyTrimmed(metaHtml.title, metaHtml.ogTitle)
        /\ metaResult.meta_description =
               FirstNonEmptyTrimmed(metaHtml.description, metaHtml.ogDescription)

\* C23's case: a blank <title> beside an og:title, and a meta description beside
\* an og:description.
C23_Witness ==
    /\ pc = "metaReturned"
    /\ metaHtml.title = <<" ">>
    /\ metaHtml.description = <<" ", "d1">>
    /\ metaHtml.ogDescription = <<"od1">>
    /\ metaResult = Row(<<"p2">>, <<"o1">>, <<"d1">>)

(***************************************************************************)
(* The FAQ section of the document                                         *)
(***************************************************************************)

\* An item whose question and answer are both non-empty once trimmed.
IsCompleteItem(item) == Trim(item.question) # <<>> /\ Trim(item.answer) # <<>>

\* The block of one complete item.
FaqBlock(item) ==
    << <<"- user question:">>, Trim(item.question), <<>>,
       <<"- agent answer:">>, Trim(item.answer), <<>>, <<"---">>, <<>> >>

\* The blocks of the complete items of a list, in list order.
RECURSIVE FaqBlocks(_)
FaqBlocks(complete) ==
    IF complete = <<>> THEN <<>> ELSE FaqBlock(Head(complete)) \o FaqBlocks(Tail(complete))

IsQuestionText(t) ==
    \/ \E k \in 1..Len(t) : t[k] = "?"
    \/ \E w \in QuestionStarts : Len(t) >= 2 /\ ToLower(t[1]) = w /\ t[2] = " "

\* The position of the first sibling after position i that is a level-1..4
\* heading, or the position after the last sibling.
FirstStopAfter(body, i) ==
    IF \E j \in (i + 1)..Len(body) : body[j].tag \in {"h1", "h2", "h3", "h4"}
    THEN CHOOSE j \in (i + 1)..Len(body) :
             /\ body[j].tag \in {"h1", "h2", "h3", "h4"}
             /\ \A k \in (i + 1)..(j - 1) : body[k].tag \notin {"h1", "h2", "h3", "h4"}
    ELSE Len(body) + 1

GivesAnswerText(node) ==
    /\ node.tag \in {"p", "div", "li", "section", "article", "#text"}
    /\ Trim(node.text) # <<>>

\* The answer of the heading at position i: the trimmed texts of the siblings
\* between it and the first stop, joined by two line feeds.
AnswerBetween(body, i) ==
    LET given == SelectSeq(SubSeq(body, i + 1, FirstStopAfter(body, i) - 1), GivesAnswerText)
    IN  Trim(JoinWith([k \in 1..Len(given) |-> Trim(given[k].text)], <<LF, LF>>))

\* The positions of the headings that yield an item.
ItemHeadings(body) ==
    { i \in 1..Len(body) :
        /\ body[i].tag \in {"h2", "h3", "h4"}
        /\ IsQuestionText(Trim(body[i].text))
        /\ AnswerBetween(body, i) # <<>> }

\* C25: the heading tier returns one item per level-2/3/4 heading whose trimmed
\* text is a question and whose answer is non-empty, in document order; the
\* answer is made of the siblings before the first following level-1..4 heading
\* only, so that nothing after that heading enters it.
C25_HeadingTier ==
    (pc = "faqReturned" /\ faqTier = "headings") =>
        LET body == faqDoc.body
            at == ItemHeadings(body)
        IN  /\ Len(faqResult) = Cardinality(at)
            /\ \A i \in at :
                   faqResult[Cardinality({ j \in at : j <= i })] =
                       [question |-> Trim(body[i].text), answer |-> AnswerBetween(body, i)]

\* C25's case: a question heading, a paragraph, a level-1 heading and a text
\* node after it; the one item's answer is the paragraph alone.
C25_Witness ==
    /\ pc = "faqReturned"
    /\ faqTier = "headings"
    /\ Len(faqDoc.body) = 4
    /\ faqDoc.body[3].tag = "h1"
    /\ faqDoc.body[4] = Node("#text", <<" ", "ha2">>)
    /\ faqResult = << [question |-> <<"What", " ", "hq1">>, answer |-> <<"ha1">>] >>

(***************************************************************************)
(* A second click while a run is suspended                                 *)
(***************************************************************************)

\* C26 as claimed: at every Done state the record list holds the records of the
\* URLs that the run reporting Done discovered, one per URL in the order of its
\* page loop, and so no record pushed by another run and no URL twice.
C26_RunsDoNotInterfere ==
    pc = "done" => RowUrls = allUrls

(***************************************************************************)
(* The sitemap phase of one run, for every robots.txt                      *)
(***************************************************************************)

\* A run on a freshly loaded page, suspended on `await discoverSitemaps(origin)`.
InitSitemapPhase ==
    /\ pc = "robotsFetch"
    /\ origin \in Origins
    /\ status = StatusText("Discovering sitemaps", 0)
    /\ statusError = FALSE
    /\ issued = {"robots"}
    /\ smIdx = 0
    /\ allUrls = <<>>
    /\ pageIdx = 0
    /\ pageResp = <<>>
    /\ found = {}
    /\ delayMs = 0
    /\ metadataRows = <<>>
    /\ faqItems = <<>>
    /\ otherRun = IdleRun
    /\ faqUrlState = "none"
    /\ NoDiscover /\ NoSitemapCall /\ NoFaq /\ NoOutput /\ NoGroupCall /\ NoUrlCall /\ NoMetaCall

\* The run up to its first page fetch.
NextSitemapPhase ==
    \/ RobotsResp(RobotsTexts)
    \/ AfterDiscover
    \/ SmFetchResp(RunSitemapResponses)
    \/ SmLoop
    \/ SmReturn
    \/ CollectUrls

SpecSitemapPhase == InitSitemapPhase /\ [][NextSitemapPhase]_vars

\* C27: discoverSitemaps returns at least one sitemap URL whatever the origin
\* and the robots.txt response, so the status "No sitemap URLs discovered." is
\* never shown, and a run that stops in the sitemap phase shows
\* "No URLs found in the discovered sitemaps.".
C27_DiscoveryNeverEmpty ==
    /\ pc = "discovered" => sitemapUrls # <<>>
    /\ status.text # "No sitemap URLs discovered."
    /\ SitemapPhaseFoundNothing => status.text = "No URLs found in the discovered sitemaps."

\* C27's case: robots.txt names no sitemap (the fetch failed, or the text has no
\* directive with a value), the fallback sitemap was the one discovered, and the
\* run stopped because it lists no URL.
C27_Witness ==
    /\ pc = "aborted"
    /\ robotsText.ok
    /\ sitemapUrls = <<FallbackSitemap(origin)>>
    /\ status.text = "No URLs found in the discovered sitemaps."
    /\ statusError

(***************************************************************************)
(* The error class at the end of a run                                     *)
(***************************************************************************)

\* C28 as claimed: whenever a run has reported "Done. Scraped N page(s).", the
\* status does not carry the error class.
C28_DoneNotError ==
    (pc = "done" /\ status.text = "Done. Scraped page(s).") => ~statusError

(***************************************************************************)
(* parseCSV of the CSV-to-llms tool, and the export read back              *)
(***************************************************************************)

\* `currentRow.length > 1 || (currentRow.length === 1 && currentRow[0].trim() !== "")`
KeepsLine(row) == Len(row) > 1 \/ (Len(row) = 1 /\ Trim(row[1]) # <<>>)

\* row.some((cell) => cell.trim() !== "")
HasNonBlankCell(row) == \E k \in 1..Len(row) : Trim(row[k]) # <<>>

\* The for loop of parseCSV from index i on (1-based), then what follows it.
RECURSIVE ParseCsvFrom(_, _, _, _, _, _)
ParseCsvFrom(text, i, rows, currentRow, currentValue, inQuotes) ==
    IF i > Len(text)
    THEN SelectSeq(IF currentValue # <<>> \/ currentRow # <<>>
                   THEN Append(rows, Append(currentRow, currentValue))
                   ELSE rows,
                   HasNonBlankCell)
    ELSE LET char == text[i]
             nextIs(c) == i + 1 <= Len(text) /\ text[i + 1] = c
         IN  IF char = "\"" /\ inQuotes /\ nextIs("\"")
             THEN ParseCsvFrom(text, i + 2, rows, currentRow, Append(currentValue, "\""), inQuotes)
             ELSE IF char = "\""
             THEN ParseCsvFrom(text, i + 1, rows, currentRow, currentValue, ~inQuotes)
             ELSE IF char = "," /\ ~inQuotes
             THEN ParseCsvFrom(text, i + 1, rows, Append(currentRow, currentValue), <<>>, inQuotes)
             ELSE IF char \in {LF, CR} /\ ~inQuotes
             THEN LET line == Append(currentRow, currentValue)
                  IN  ParseCsvFrom(text, IF char = CR /\ nextIs(LF) THEN i + 2 ELSE i + 1,
                                   IF KeepsLine(line) THEN Append(rows, line) ELSE rows,
                                   <<>>, <<>>, inQuotes)
             ELSE ParseCsvFrom(text, i + 1, rows, currentRow, Append(currentValue, char), inQuotes)

\* parseCSV(text)
ParseCSV(text) == ParseCsvFrom(text, 1, <<>>, <<>>, <<>>, FALSE)

MaxCsvRows == 2

\* Titles and descriptions as a run leaves them: trimmed, with commas, double
\* quotes, line feeds or carriage returns inside.
CsvTitles ==
    { <<>>, <<"a">>, <<"a", ",", "b">>, <<"\"", "a">>, <<"a", "\"">>, <<"\"">>, <<",">>,
      <<"a", LF, "b">>, <<"a", CR, "b">>, <<"a", CR, LF, "b">>, <<"a", CR, ",">> }
CsvDescriptions == { <<>>, <<"d">>, <<"d", LF, "\"", "e", "\"">> }
CsvRecords ==
    { Row(u, t, d) : u \in { <<"p1">>, <<"p2", ",", "x">> }, t \in CsvTitles,
                     d \in CsvDescriptions }

\* A record list, rendered and then exported.
InitCsv ==
    /\ pc = "render"
    /\ origin = <<>>
    /\ NoDiscover /\ NoSitemapCall /\ NoFaq /\ NoOutput /\ NoGroupCall /\ NoUrlCall /\ NoMetaCall
    /\ smIdx = 0
    /\ allUrls = <<>>
    /\ pageIdx = 0
    /\ pageResp = <<>>
    /\ found = {}
    /\ delayMs = 0
    /\ status = StatusText("", 0)
    /\ statusError = FALSE
    /\ metadataRows \in SeqsUpTo(CsvRecords, MaxCsvRows)
    /\ faqItems = <<>>
    /\ otherRun = IdleRun
    /\ issued = {}
    /\ faqUrlState = "none"

SpecCsv == InitCsv /\ [][NextRender]_vars

\* The rows of strings a record list stands for, the header row first.
RecordCells(rows) ==
    <<CsvHeader>> \o [i \in 1..Len(rows) |->
                         <<rows[i].url, rows[i].meta_title, rows[i].meta_description>>]

\* C29 as claimed: parseCSV, applied to the exported text, gives the header row
\* and then the exported records, field by field.
C29_CsvRoundTrip ==
    (pc = "downloaded" /\ metadataRows # <<>>) => ParseCSV(csvFile) = RecordCells(metadataRows)

====
